---- MODULE Spec2Model ----
(***************************************************************************)
(* Model of the output comparator of compare_output.py: the Structural     *)
(* Differ (normalize_json, compare_outputs / find_diff), the Alignment     *)
(* Checker (verify_same_input_data), the per-partition row loop            *)
(* (compare_csv_files) and the Parallel Reconciler (compare_all_parts);    *)
(* of the batched comparison of Compare_output_holo_combined.py            *)
(* (compare_batched_csv); and of the test harness of sanity_v3.py          *)
(* (APITester.run_test).                                                   *)
(*                                                                         *)
(* A JSON value, as json.loads returns it, is a record [k, v]: k is the    *)
(* Python type name ("str", "int", "float", "bool", "list", "dict") and v  *)
(* the payload.  A dict keeps its insertion order: v is a sequence of      *)
(* <<key, value>> pairs with distinct keys.  A float is one of integral    *)
(* value with its sign bit, <<negative, n>>: 0.0 is <<FALSE, 0>> and -0.0  *)
(* is <<TRUE, 0>>.                                                         *)
(***************************************************************************)
EXTENDS Integers, Sequences, FiniteSets, TLC

VARIABLES
    pc,         \* position of the run being modelled
    output1,    \* compare_outputs: first argument
    output2,    \* compare_outputs: second argument
    result,     \* compare_outputs: the returned (is_match, comment)
    api1_csv,   \* compare_csv_files: the rows of the api_1 file
    api2_csv,   \* compare_csv_files: the rows of the api_2 file
    partition,  \* compare_csv_files: what the call returned or raised
    api1_files, \* compare_all_parts: the part files of the api_1 folder, by part number
    api2_files, \* compare_all_parts: the part files of the api_2 folder, by part number
    use_multiprocessing,
    cpu_count,  \* mp.cpu_count()
    file_pairs, \* (api_1 file, api_2 file, part number) per unit of work
    futures,    \* per part number: where its submitted call stands
    all_comparisons,    \* dict part number -> comparison_df, in insertion order
    all_stats,  \* dict part number -> stats, in insertion order
    combined_df,
    reports,    \* the files of the comparison folder: <<>> or <<what the file holds>>
    log,        \* what the run printed of warnings, errors and files saved
    run,        \* how many runs of compare_all_parts the root directory has seen
    df,         \* run_test: the table of transactions to send
    batch_size, \* APITester.batch_size
    rows_per_file,
    batch_num,  \* run_test: how many batches the loop has been through
    file_counter,
    rows_in_current_file,
    current_file_results,
    batch_numbers,
    requests_sent,  \* the requests posted: the descriptions sent and how each ended
    output_folder   \* the output_part files written, by part number

differVars == <<output1, output2, result>>
rowVars == <<api1_csv, api2_csv, partition>>
inputVars == <<api1_files, api2_files, use_multiprocessing, cpu_count>>
runVars == <<file_pairs, futures, all_comparisons, all_stats, combined_df, reports, log, run>>
harnessVars ==
    <<df, batch_size, rows_per_file, batch_num, file_counter, rows_in_current_file,
      current_file_results, batch_numbers, requests_sent, output_folder>>
vars == <<pc, differVars, rowVars, inputVars, runVars, harnessVars>>

(***************************************************************************)
(* Bounds of the model.                                                    *)
(***************************************************************************)
MaxItems == 2   \* longest list of record items drawn as an input
MaxFlat == 6    \* longest flat list of scalars drawn as an input
MaxRows == 2    \* most rows of one partition file
MaxParts == 3   \* most part files of one folder
MaxCpu == 3     \* most CPUs of the machine
MaxHarnessParts == 10   \* most part files of a folder reconciled sequentially
MaxRunParts == 2    \* most part files of a folder that is reconciled again
MaxRuns == 2    \* most runs over one root directory
MaxBatches == 2    \* most batches of a batched output file
MaxTable == 6   \* most rows of the table the harness sends
MaxBatchSize == 3   \* largest batch size of the harness
MaxRowsPerFile == 4 \* largest rows_per_file of the harness

(***************************************************************************)
(* Python values.                                                          *)
(***************************************************************************)
STR(s) == [k |-> "str", v |-> s]
INT(n) == [k |-> "int", v |-> n]
BOOL(b) == [k |-> "bool", v |-> b]
FLOAT(negative, n) == [k |-> "float", v |-> <<negative, n>>]
LIST(s) == [k |-> "list", v |-> s]
DICT(p) == [k |-> "dict", v |-> p]

NoResult == <<FALSE, "">>

Min(m, n) == IF m < n THEN m ELSE n

\* A comparison folder no run has written to.
NoReports == [combined_comparison |-> <<>>, mismatch_only |-> <<>>, summary |-> <<>>]
\* The first run of compare_all_parts before it has done anything.
NoRunYet ==
    /\ file_pairs = <<>> /\ futures = <<>>
    /\ all_comparisons = <<>> /\ all_stats = <<>>
    /\ combined_df = <<>> /\ reports = NoReports
    /\ log = <<>> /\ run = 1
\* The variables of compare_all_parts where no run of it is modelled.
NoRun ==
    /\ api1_files = <<>> /\ api2_files = <<>>
    /\ use_multiprocessing = FALSE /\ cpu_count = 1
    /\ NoRunYet

\* The variables of run_test where no test run is modelled.
NoTest ==
    /\ df = <<>> /\ batch_size = 1 /\ rows_per_file = 1
    /\ batch_num = 0 /\ file_counter = 1 /\ rows_in_current_file = 0
    /\ current_file_results = <<>> /\ batch_numbers = <<>>
    /\ requests_sent = <<>> /\ output_folder = <<>>

\* The sequences over S of length n, and of length at most n.
RECURSIVE SeqsOfLen(_, _)
SeqsOfLen(S, n) ==
    IF n = 0 THEN {<<>>}
    ELSE { Append(s, x) : s \in SeqsOfLen(S, n - 1), x \in S }
SeqsUpTo(S, n) == UNION { SeqsOfLen(S, m) : m \in 0..n }
Range(s) == { s[i] : i \in 1..Len(s) }

\* ord() of each character of the strings the model uses.
CodePoints(s) ==
    CASE s = "a" -> <<97>>
      [] s = "b" -> <<98>>
      [] s = "c" -> <<99>>
      [] s = "d" -> <<100>>
      [] s = "x" -> <<120>>
      [] s = "y" -> <<121>>

\* Python's < on str (and on the lists of code points that stand for them).
RECURSIVE LexLess(_, _)
LexLess(s, t) ==
    IF t = <<>> THEN FALSE
    ELSE IF s = <<>> THEN TRUE
    ELSE IF Head(s) # Head(t) THEN Head(s) < Head(t)
    ELSE LexLess(Tail(s), Tail(t))

StrLess(s, t) == LexLess(CodePoints(s), CodePoints(t))

\* dict helpers: keys(), `key in obj`, obj[key].
DictKeys(d) == { d.v[i][1] : i \in 1..Len(d.v) }
HasKey(d, key) == key \in DictKeys(d)
DictGet(d, key) == d.v[CHOOSE i \in 1..Len(d.v) : d.v[i][1] = key][2]

\* sorted() of a set of str keys.
RECURSIVE SortedKeys(_)
SortedKeys(ks) ==
    IF ks = {} THEN <<>>
    ELSE LET m == CHOOSE x \in ks : \A y \in ks : ~StrLess(y, x)
         IN <<m>> \o SortedKeys(ks \ {m})

\* The value of a bool or int as a number: True == 1 and False == 0 in Python.
NumVal(x) ==
    IF x.k = "bool" THEN (IF x.v THEN 1 ELSE 0)
    ELSE IF x.k = "float" THEN (IF x.v[1] THEN 0 - x.v[2] ELSE x.v[2])
    ELSE x.v
IsNumber(x) == x.k \in {"int", "float", "bool"}

\* Python's == on parsed JSON: numbers by value (so 1 == True), str by value,
\* lists element-wise in order, dicts key-wise whatever the insertion order.
RECURSIVE PyEq(_, _)
PyEq(x, y) ==
    IF IsNumber(x) /\ IsNumber(y) THEN NumVal(x) = NumVal(y)
    ELSE IF x.k # y.k THEN FALSE
    ELSE IF x.k = "str" THEN x.v = y.v
    ELSE IF x.k = "list" THEN
        /\ Len(x.v) = Len(y.v)
        /\ \A i \in 1..Len(x.v) : PyEq(x.v[i], y.v[i])
    ELSE
        /\ DictKeys(x) = DictKeys(y)
        /\ \A key \in DictKeys(x) : PyEq(DictGet(x, key), DictGet(y, key))

\* Decimal digits of a non-negative int, as code points.
RECURSIVE Digits(_)
Digits(n) == IF n < 10 THEN <<48 + n>> ELSE Digits(n \div 10) \o <<48 + (n % 10)>>

\* json.dumps(x, sort_keys=True), as the list of code points of the text:
\* separators ", " and ": ", keys in sorted order.
RECURSIVE json_dumps(_)
RECURSIVE DumpItems(_)
RECURSIVE DumpPairs(_, _)
DumpItems(s) ==
    IF s = <<>> THEN <<>>
    ELSE IF Len(s) = 1 THEN json_dumps(s[1])
    ELSE json_dumps(s[1]) \o <<44, 32>> \o DumpItems(Tail(s))
DumpPairs(d, ks) ==
    IF ks = <<>> THEN <<>>
    ELSE LET one == <<34>> \o CodePoints(ks[1]) \o <<34, 58, 32>>
                    \o json_dumps(DictGet(d, ks[1]))
         IN IF Len(ks) = 1 THEN one ELSE one \o <<44, 32>> \o DumpPairs(d, Tail(ks))
json_dumps(x) ==
    IF x.k = "str" THEN <<34>> \o CodePoints(x.v) \o <<34>>
    ELSE IF x.k = "int" THEN Digits(x.v)
    ELSE IF x.k = "float" THEN
        (IF x.v[1] THEN <<45>> ELSE <<>>) \o Digits(x.v[2]) \o <<46, 48>>
    ELSE IF x.k = "bool" THEN
        (IF x.v THEN <<116, 114, 117, 101>> ELSE <<102, 97, 108, 115, 101>>)
    ELSE IF x.k = "list" THEN <<91>> \o DumpItems(x.v) \o <<93>>
    ELSE <<123>> \o DumpPairs(x, SortedKeys(DictKeys(x))) \o <<125>>

\* sorted(items, key=json.dumps(.., sort_keys=True)): a stable sort, so an
\* item goes after every earlier item whose key is not greater than its own.
RECURSIVE InsertByDump(_, _)
InsertByDump(sorted, x) ==
    IF sorted = <<>> THEN <<x>>
    ELSE IF LexLess(json_dumps(x), json_dumps(Head(sorted))) THEN <<x>> \o sorted
    ELSE <<Head(sorted)>> \o InsertByDump(Tail(sorted), x)

RECURSIVE SortedByDump(_)
SortedByDump(s) ==
    IF s = <<>> THEN <<>>
    ELSE InsertByDump(SortedByDump(SubSeq(s, 1, Len(s) - 1)), s[Len(s)])

RECURSIVE normalize_json(_)
RECURSIVE NormalizeItems(_)
RECURSIVE NormalizePairs(_, _)
NormalizeItems(s) ==
    IF s = <<>> THEN <<>> ELSE <<normalize_json(Head(s))>> \o NormalizeItems(Tail(s))
NormalizePairs(d, ks) ==
    IF ks = <<>> THEN <<>>
    ELSE << <<ks[1], normalize_json(DictGet(d, ks[1]))>> >> \o NormalizePairs(d, Tail(ks))
\* Mutant: the list of dicts is normalized element-wise but never sorted.
normalize_json_unsorted(obj) ==
    IF obj.k = "dict" THEN DICT(NormalizePairs(obj, SortedKeys(DictKeys(obj))))
    ELSE IF obj.k = "list" THEN LIST(NormalizeItems(obj.v))
    ELSE obj
normalize_json(obj) ==
    IF obj.k = "dict" THEN DICT(NormalizePairs(obj, SortedKeys(DictKeys(obj))))
    ELSE IF obj.k = "list" THEN
        IF obj.v # <<>> /\ obj.v[1].k = "dict"
        THEN LIST(SortedByDump(NormalizeItems(obj.v)))
        ELSE LIST(NormalizeItems(obj.v))
    ELSE obj

\* repr() of a scalar.
Repr(x) ==
    IF x.k = "str" THEN "'" \o x.v \o "'"
    ELSE IF x.k = "int" THEN ToString(x.v)
    ELSE IF x.k = "float" THEN (IF x.v[1] THEN "-" ELSE "") \o ToString(x.v[2]) \o ".0"
    ELSE IF x.v THEN "True" ELSE "False"

\* One Difference: the path it is reported at and the reason, kept apart
\* until Text formats them.  what is "type", "only", "length", "extra" or
\* "value"; s1 and s2 are the side label, the two lengths or the two reprs.
Difference(path, what, s1, s2) == [path |-> path, what |-> what, s1 |-> s1, s2 |-> s2]

\* The f-string each branch of find_diff appends.
Text(d) ==
    IF d.what = "type" THEN d.path \o ": type mismatch"
    ELSE IF d.what = "only" THEN d.path \o ": only in " \o d.s1
    ELSE IF d.what = "length" THEN
        d.path \o ": length mismatch (api_1=" \o d.s1 \o ", api_2=" \o d.s2 \o ")"
    ELSE IF d.what = "extra" THEN d.path \o ": extra in " \o d.s1
    ELSE d.path \o ": api_1=" \o d.s1 \o ", api_2=" \o d.s2

RECURSIVE Texts(_)
Texts(ds) == IF ds = <<>> THEN <<>> ELSE <<Text(Head(ds))>> \o Texts(Tail(ds))

RECURSIVE find_diff(_, _, _)
RECURSIVE DiffKeys(_, _, _, _)
RECURSIVE DiffItems(_, _, _, _)
RECURSIVE DiffExtra(_, _, _, _)
\* Mutant: only the first side's keys are walked.
AllKeysOfFirst(obj1, obj2) == DictKeys(obj1)
\* all_keys = set(obj1.keys()) | set(obj2.keys())
AllKeys(obj1, obj2) == DictKeys(obj1) \cup DictKeys(obj2)
\* for key in sorted(all_keys)
DiffKeys(obj1, obj2, path, ks) ==
    IF ks = <<>> THEN <<>>
    ELSE LET key == ks[1]
             here == IF ~HasKey(obj1, key)
                     THEN <<Difference(path \o "." \o key, "only", "api_2", "")>>
                     ELSE IF ~HasKey(obj2, key)
                     THEN <<Difference(path \o "." \o key, "only", "api_1", "")>>
                     ELSE find_diff(DictGet(obj1, key), DictGet(obj2, key),
                                    path \o "." \o key)
         IN here \o DiffKeys(obj1, obj2, path, Tail(ks))
\* for i in range(min(len(obj1), len(obj2))), from the 0-based index i on
DiffItems(obj1, obj2, path, i) ==
    IF i >= Min(Len(obj1.v), Len(obj2.v)) THEN <<>>
    ELSE find_diff(obj1.v[i + 1], obj2.v[i + 1], path \o "[" \o ToString(i) \o "]")
         \o DiffItems(obj1, obj2, path, i + 1)
\* Mutant: the trailing elements are reported once, at the first of them.
DiffExtraOnce(path, i, hi, side) ==
    IF i >= hi THEN <<>>
    ELSE <<Difference(path \o "[" \o ToString(i) \o "]", "extra", side, "")>>
\* for i in range(lo, hi): "{path}[{i}]: extra in <side>"
DiffExtra(path, i, hi, side) ==
    IF i >= hi THEN <<>>
    ELSE <<Difference(path \o "[" \o ToString(i) \o "]", "extra", side, "")>>
         \o DiffExtra(path, i + 1, hi, side)
\* Mutant: the walk goes on after a type mismatch of two scalars, to the
\* comparison of their values.
find_diff_without_return(obj1, obj2, path) ==
    IF obj1.k # obj2.k THEN
        <<Difference(path, "type", "", "")>>
        \o (IF obj1.k \notin {"dict", "list"} /\ obj2.k \notin {"dict", "list"}
                /\ ~PyEq(obj1, obj2)
            THEN <<Difference(path, "value", Repr(obj1), Repr(obj2))>> ELSE <<>>)
    ELSE IF obj1.k = "dict" THEN
        DiffKeys(obj1, obj2, path, SortedKeys(AllKeys(obj1, obj2)))
    ELSE IF obj1.k = "list" THEN
        (IF Len(obj1.v) # Len(obj2.v)
         THEN <<Difference(path, "length", ToString(Len(obj1.v)), ToString(Len(obj2.v)))>>
         ELSE <<>>)
        \o DiffItems(obj1, obj2, path, 0)
        \o (IF Len(obj1.v) > Len(obj2.v)
            THEN DiffExtra(path, Len(obj2.v), Len(obj1.v), "api_1")
            ELSE IF Len(obj2.v) > Len(obj1.v)
            THEN DiffExtra(path, Len(obj1.v), Len(obj2.v), "api_2")
            ELSE <<>>)
    ELSE IF ~PyEq(obj1, obj2)
         THEN <<Difference(path, "value", Repr(obj1), Repr(obj2))>>
         ELSE <<>>
find_diff(obj1, obj2, path) ==
    IF obj1.k # obj2.k THEN <<Difference(path, "type", "", "")>>
    ELSE IF obj1.k = "dict" THEN
        DiffKeys(obj1, obj2, path, SortedKeys(AllKeys(obj1, obj2)))
    ELSE IF obj1.k = "list" THEN
        (IF Len(obj1.v) # Len(obj2.v)
         THEN <<Difference(path, "length", ToString(Len(obj1.v)), ToString(Len(obj2.v)))>>
         ELSE <<>>)
        \o DiffItems(obj1, obj2, path, 0)
        \o (IF Len(obj1.v) > Len(obj2.v)
            THEN DiffExtra(path, Len(obj2.v), Len(obj1.v), "api_1")
            ELSE IF Len(obj2.v) > Len(obj1.v)
            THEN DiffExtra(path, Len(obj1.v), Len(obj2.v), "api_2")
            ELSE <<>>)
    ELSE IF ~PyEq(obj1, obj2)
         THEN <<Difference(path, "value", Repr(obj1), Repr(obj2))>>
         ELSE <<>>

\* sep.join(parts)
RECURSIVE Join(_, _)
Join(sep, parts) ==
    IF parts = <<>> THEN ""
    ELSE IF Len(parts) = 1 THEN parts[1]
    ELSE parts[1] \o sep \o Join(sep, Tail(parts))

\* comments[:5]
MaxShown == 5

\* Mutant: the second value is compared as it came, not normalized.
compare_outputs_raw_second(o1, o2) ==
    IF PyEq(normalize_json(o1), o2) THEN <<TRUE, "MATCH">>
    ELSE LET comments == Texts(find_diff(o1, o2, "root"))
         IN <<FALSE,
              IF comments # <<>>
              THEN Join(" | ", SubSeq(comments, 1, Min(Len(comments), MaxShown)))
              ELSE "Structure mismatch">>
\* Mutant: every Difference is joined, none cut off.
compare_outputs_untruncated(o1, o2) ==
    IF PyEq(normalize_json(o1), normalize_json(o2)) THEN <<TRUE, "MATCH">>
    ELSE LET comments == Texts(find_diff(o1, o2, "root"))
         IN <<FALSE, IF comments # <<>> THEN Join(" | ", comments) ELSE "Structure mismatch">>
\* Mutant: a count of the Differences left out follows the ones shown.
compare_outputs_with_note(o1, o2) ==
    IF PyEq(normalize_json(o1), normalize_json(o2)) THEN <<TRUE, "MATCH">>
    ELSE LET comments == Texts(find_diff(o1, o2, "root"))
             shown == Join(" | ", SubSeq(comments, 1, Min(Len(comments), MaxShown)))
         IN <<FALSE,
              IF comments = <<>> THEN "Structure mismatch"
              ELSE IF Len(comments) > MaxShown
              THEN shown \o " (+" \o ToString(Len(comments) - MaxShown) \o " more)"
              ELSE shown>>
compare_outputs(o1, o2) ==
    LET norm1 == normalize_json(o1)
        norm2 == normalize_json(o2)
    IN IF PyEq(norm1, norm2) THEN <<TRUE, "MATCH">>
       ELSE LET comments == Texts(find_diff(o1, o2, "root"))
            IN <<FALSE,
                 IF comments # <<>>
                 THEN Join(" | ", SubSeq(comments, 1, Min(Len(comments), MaxShown)))
                 ELSE "Structure mismatch">>

(***************************************************************************)
(* Partition files and their comparison (compare_csv_files).               *)
(*                                                                         *)
(* A file is the sequence of its data rows, every cell the text the CSV    *)
(* holds.  A DataFrame is the same sequence with typed cells: a Python     *)
(* value for transaction_id, description and memo, the text itself for     *)
(* outputs_json (dtype str).                                               *)
(***************************************************************************)
\* Mutant: the loop runs over the rows both files have.
ShorterLen(m, n) == IF m < n THEN m ELSE n
Max(m, n) == IF m > n THEN m ELSE n

CsvRow(id, desc, memo, out) ==
    [transaction_id |-> id, description |-> desc, memo |-> memo, outputs_json |-> out]

\* The texts that read as an integer, and the integer each reads as.
IntTexts == { ToString(n) : n \in 0..9 }
IntOf(s) == CHOOSE n \in 0..9 : ToString(n) = s

\* pd.read_csv(..., keep_default_na=False, dtype={'outputs_json': str}): a column
\* whose every cell reads as an integer becomes int64, any other stays text.
ColumnIsInt(csv, col) == csv # <<>> /\ \A i \in 1..Len(csv) : csv[i][col] \in IntTexts
Cell(csv, col, i) ==
    IF ColumnIsInt(csv, col) THEN INT(IntOf(csv[i][col])) ELSE STR(csv[i][col])
read_csv(csv) ==
    [ i \in 1..Len(csv) |->
        [transaction_id |-> Cell(csv, "transaction_id", i),
         description |-> Cell(csv, "description", i),
         memo |-> Cell(csv, "memo", i),
         outputs_json |-> csv[i].outputs_json] ]

\* str(x), and Series.astype(str) cell by cell.
PyStr(x) == IF x.k = "int" THEN ToString(x.v) ELSE x.v

\* A payload of more keys than Differences are shown.
SixKeys == "{\"a\": 1, \"b\": 1, \"c\": 1, \"d\": 1, \"x\": 1, \"y\": 1}"

\* json.loads on the payload texts of the model: the value, or an error.
JsonError == [ok |-> FALSE, value |-> DICT(<<>>)]
JsonValue(val) == [ok |-> TRUE, value |-> val]
json_loads(text) ==
    CASE text = "{}" -> JsonValue(DICT(<<>>))
      [] text = "{\"x\": 1}" -> JsonValue(DICT(<< <<"x", INT(1)>> >>))
      [] text = "{\"x\": \"a\"}" -> JsonValue(DICT(<< <<"x", STR("a")>> >>))
      [] text = "{\"y\": 1, \"x\": 1}" ->
            JsonValue(DICT(<< <<"y", INT(1)>>, <<"x", INT(1)>> >>))
      [] text = SixKeys ->
            JsonValue(DICT(<< <<"a", INT(1)>>, <<"b", INT(1)>>, <<"c", INT(1)>>,
                              <<"d", INT(1)>>, <<"x", INT(1)>>, <<"y", INT(1)>> >>))
      [] text = "[1]" -> JsonValue(LIST(<<INT(1)>>))
      [] text = "[]" -> JsonValue(LIST(<<>>))
      [] text = "[\"1\"]" -> JsonValue(LIST(<<STR("1")>>))
      [] text = "[\"d\"]" -> JsonValue(LIST(<<STR("d")>>))
      [] text = "[\"e\"]" -> JsonValue(LIST(<<STR("e")>>))
      [] text = "[\"d\", \"e\"]" -> JsonValue(LIST(<<STR("d"), STR("e")>>))
      [] OTHER -> JsonError

\* Mutant: what json.loads returns is returned whatever its type.
parse_outputs_json_any_type(value) ==
    IF value = "" \/ value = "{}" THEN DICT(<<>>)
    ELSE LET parsed == json_loads(value)
         IN IF parsed.ok THEN parsed.value ELSE DICT(<<>>)
parse_outputs_json(value) ==
    IF value = "" \/ value = "{}" THEN DICT(<<>>)
    ELSE LET parsed == json_loads(value)
         IN IF parsed.ok /\ parsed.value.k = "dict" THEN parsed.value ELSE DICT(<<>>)

\* Python's None, and parse_json_field of the batched comparison: the parsed
\* value of a text, None for an empty or unparseable one.
NONE == [k |-> "NoneType", v |-> "None"]
parse_json_field(value) ==
    IF value = "" \/ value \in {"{}", "[]"} THEN NONE
    ELSE LET parsed == json_loads(value)
         IN IF parsed.ok THEN parsed.value ELSE NONE

\* Mutant: the descriptions are not looked at.
verify_same_input_data_ids_only(df_api1, df_api2) ==
    IF Len(df_api1) # Len(df_api2)
    THEN <<FALSE, "Different number of rows: api_1=" \o ToString(Len(df_api1))
                  \o ", api_2=" \o ToString(Len(df_api2))>>
    ELSE IF \E i \in 1..Len(df_api1) :
                PyStr(df_api1[i].transaction_id) # PyStr(df_api2[i].transaction_id)
    THEN <<FALSE, "Transaction IDs don't match - files may not be aligned">>
    ELSE <<TRUE, "Input data verified as identical">>
verify_same_input_data(df_api1, df_api2) ==
    IF Len(df_api1) # Len(df_api2)
    THEN <<FALSE, "Different number of rows: api_1=" \o ToString(Len(df_api1))
                  \o ", api_2=" \o ToString(Len(df_api2))>>
    ELSE IF \E i \in 1..Len(df_api1) :
                PyStr(df_api1[i].transaction_id) # PyStr(df_api2[i].transaction_id)
    THEN <<FALSE, "Transaction IDs don't match - files may not be aligned">>
    ELSE IF \E i \in 1..Len(df_api1) :
                PyStr(df_api1[i].description) # PyStr(df_api2[i].description)
    THEN <<FALSE, "Descriptions don't match - files may not be aligned">>
    ELSE <<TRUE, "Input data verified as identical">>

\* One entry of comparison_data.
OutRow(id, desc, memo, out1, out2, status, comment) ==
    [transaction_id |-> id, description |-> desc, memo |-> memo,
     api_1_output |-> out1, api_2_output |-> out2,
     match_status |-> status, comment |-> comment]

NotAligned == "Input data doesn't match - rows are not aligned!"

\* Mutant: only the identifiers are looked at.
RowsMisalignedById(row_api1, row_api2) ==
    PyStr(row_api1.transaction_id) # PyStr(row_api2.transaction_id)
\* The rows' inputs disagree: the test the loop makes at an index both files have.
RowsMisaligned(row_api1, row_api2) ==
    \/ PyStr(row_api1.transaction_id) # PyStr(row_api2.transaction_id)
    \/ PyStr(row_api1.description) # PyStr(row_api2.description)

\* The body of the loop for the 1-based index idx.
CompareRow(df_api1, df_api2, idx) ==
    IF idx > Len(df_api1) THEN
        OutRow(df_api2[idx].transaction_id, df_api2[idx].description, df_api2[idx].memo,
               "MISSING ROW", df_api2[idx].outputs_json,
               "DATA_MISMATCH", "Row exists only in api_2")
    ELSE IF idx > Len(df_api2) THEN
        OutRow(df_api1[idx].transaction_id, df_api1[idx].description, df_api1[idx].memo,
               df_api1[idx].outputs_json, "MISSING ROW",
               "DATA_MISMATCH", "Row exists only in api_1")
    ELSE LET row_api1 == df_api1[idx]
             row_api2 == df_api2[idx]
             row_id_api1 == PyStr(row_api1.transaction_id)
             row_id_api2 == PyStr(row_api2.transaction_id)
             row_desc_api1 == PyStr(row_api1.description)
         IN IF RowsMisaligned(row_api1, row_api2) THEN
                OutRow(STR("api_1=" \o row_id_api1 \o ", api_2=" \o row_id_api2),
                       STR(row_desc_api1), row_api1.memo, "N/A", "N/A",
                       "DATA_MISMATCH", NotAligned)
            ELSE LET compared == compare_outputs(parse_outputs_json(row_api1.outputs_json),
                                                 parse_outputs_json(row_api2.outputs_json))
                 IN OutRow(STR(row_id_api1), STR(row_desc_api1), row_api1.memo,
                           IF row_api1.outputs_json # "" THEN row_api1.outputs_json ELSE "{}",
                           IF row_api2.outputs_json # "" THEN row_api2.outputs_json ELSE "{}",
                           IF compared[1] THEN "MATCH" ELSE "MISMATCH",
                           compared[2])

\* Mutant: a status is counted wherever the status text ends in it.
CountStatusEnding(rows, status) ==
    Cardinality({ i \in 1..Len(rows) :
        \/ rows[i].match_status = status
        \/ status = "MISMATCH" /\ rows[i].match_status = "DATA_MISMATCH" })
CountStatus(rows, status) ==
    Cardinality({ i \in 1..Len(rows) : rows[i].match_status = status })

NoPartition == [raised |-> FALSE, comparison_df |-> <<>>,
                stats |-> [matches |-> 0, mismatches |-> 0,
                           data_mismatches |-> 0, verification |-> ""]]
\* comparison_df['match_status'] of a frame built from no row: KeyError.
Raised == [NoPartition EXCEPT !.raised = TRUE]

\* Mutant: a failed verification marks every row as not aligned.
compare_csv_files_gated(api1, api2) ==
    LET df_api1 == read_csv(api1)
        df_api2 == read_csv(api2)
        verification == verify_same_input_data(df_api1, df_api2)
        comparison_data ==
            [ idx \in 1..Max(Len(df_api1), Len(df_api2)) |->
                IF verification[1] THEN CompareRow(df_api1, df_api2, idx)
                ELSE [CompareRow(df_api1, df_api2, idx) EXCEPT
                        !.match_status = "DATA_MISMATCH", !.comment = NotAligned] ]
    IN IF Len(comparison_data) = 0 THEN Raised
       ELSE [raised |-> FALSE,
             comparison_df |-> comparison_data,
             stats |-> [matches |-> CountStatus(comparison_data, "MATCH"),
                        mismatches |-> CountStatus(comparison_data, "MISMATCH"),
                        data_mismatches |-> CountStatus(comparison_data, "DATA_MISMATCH"),
                        verification |-> verification[2]]]
compare_csv_files(api1, api2) ==
    LET df_api1 == read_csv(api1)
        df_api2 == read_csv(api2)
        verification == verify_same_input_data(df_api1, df_api2)
        comparison_data ==
            [ idx \in 1..Max(Len(df_api1), Len(df_api2)) |-> CompareRow(df_api1, df_api2, idx) ]
    IN IF Len(comparison_data) = 0 THEN Raised
       ELSE [raised |-> FALSE,
             comparison_df |-> comparison_data,
             stats |-> [matches |-> CountStatus(comparison_data, "MATCH"),
                        mismatches |-> CountStatus(comparison_data, "MISMATCH"),
                        data_mismatches |-> CountStatus(comparison_data, "DATA_MISMATCH"),
                        verification |-> verification[2]]]

(***************************************************************************)
(* Inputs of compare_csv_files: an api_1 file of well-formed rows against  *)
(* an api_2 file whose every field may differ.                             *)
(***************************************************************************)
Payload == "{\"x\": 1}"
Api1Rows == { CsvRow(id, "d", "m", Payload) : id \in {"1", "t"} }
Api2Rows ==
    { CsvRow(id, desc, memo, out) :
        id \in {"1", "2", "t"}, desc \in {"d", "e"}, memo \in {"m", "n"},
        out \in {Payload, "{\"x\": \"a\"}"} }

\* The payload texts of aligned rows: empty, unparseable, not an object, objects.
PayloadTexts ==
    {"", "{}", "{oops", "[1]", "[]", Payload, "{\"x\": \"a\"}", "{\"y\": 1, \"x\": 1}", SixKeys}
AlignedRows == { CsvRow("1", "d", "m", out) : out \in PayloadTexts }

InitRows ==
    /\ pc = "rows"
    /\ \/ /\ api1_csv \in SeqsUpTo(Api1Rows, MaxRows)
          /\ api2_csv \in SeqsUpTo(Api2Rows, MaxRows)
       \/ /\ api1_csv \in SeqsOfLen(AlignedRows, 1)
          /\ api2_csv \in SeqsOfLen(AlignedRows, 1)
    /\ partition = NoPartition
    /\ output1 = DICT(<<>>) /\ output2 = DICT(<<>>) /\ result = NoResult
    /\ NoRun
    /\ NoTest

CompareCsvFiles ==
    /\ pc = "rows"
    /\ partition' = compare_csv_files(api1_csv, api2_csv)
    /\ pc' = "rows_done"
    /\ UNCHANGED <<api1_csv, api2_csv>>
    /\ UNCHANGED <<differVars, inputVars, runVars, harnessVars>>

NextRows == CompareCsvFiles

SpecRows == InitRows /\ [][NextRows]_vars

(***************************************************************************)
(* The batched comparison of Compare_output_holo_combined.py                *)
(* (compare_batched_csv): one row per batch, holding the batch id, the      *)
(* descriptions and memos that were sent, as JSON arrays, and the response. *)
(***************************************************************************)
BatchRow(id, descs, memos, response) ==
    [batch_id |-> id, descriptions_json |-> descs, memos_json |-> memos,
     api_response_json |-> response]

\* pd.read_csv with dtype str for the three JSON columns.
read_batched_csv(csv) ==
    [ i \in 1..Len(csv) |->
        [batch_id |-> Cell(csv, "batch_id", i),
         descriptions_json |-> csv[i].descriptions_json,
         memos_json |-> csv[i].memos_json,
         api_response_json |-> csv[i].api_response_json] ]

IsNone(x) == x.k = "NoneType"

\* repr(x) and str(x) of a parsed JSON value.
RECURSIVE ReprValue(_)
ReprValue(x) ==
    IF IsNone(x) THEN "None"
    ELSE IF x.k = "list"
    THEN "[" \o Join(", ", [ i \in 1..Len(x.v) |-> ReprValue(x.v[i]) ]) \o "]"
    ELSE IF x.k = "dict"
    THEN "{" \o Join(", ", [ i \in 1..Len(x.v) |->
                                "'" \o x.v[i][1] \o "': " \o ReprValue(x.v[i][2]) ]) \o "}"
    ELSE Repr(x)
StrValue(x) == IF x.k = "str" THEN x.v ELSE ReprValue(x)

\* Python's != on what parse_json_field returns.
NotEqual(x, y) == IF IsNone(x) \/ IsNone(y) THEN x.k # y.k ELSE ~PyEq(x, y)

\* compare_json_arrays on two arrays, or None for an empty field: the lengths,
\* then the items one by one as str.
compare_json_arrays(arr1, arr2, field_name) ==
    IF IsNone(arr1) /\ IsNone(arr2) THEN <<TRUE, "Both empty">>
    ELSE IF IsNone(arr1) \/ IsNone(arr2)
    THEN <<FALSE, field_name \o ": one is empty, other is not">>
    ELSE IF Len(arr1.v) # Len(arr2.v)
    THEN <<FALSE, field_name \o ": length mismatch (api_1=" \o ToString(Len(arr1.v))
                  \o ", api_2=" \o ToString(Len(arr2.v)) \o ")">>
    ELSE LET differing == { i \in 1..Len(arr1.v) : StrValue(arr1.v[i]) # StrValue(arr2.v[i]) }
         IN IF differing # {}
            THEN LET i == CHOOSE j \in differing : \A m \in differing : j <= m
                 IN <<FALSE, field_name \o "[" \o ToString(i - 1) \o "]: api_1="
                             \o ReprValue(arr1.v[i]) \o ", api_2=" \o ReprValue(arr2.v[i])>>
            ELSE <<TRUE, "Match">>

\* compare_api_responses: None against None matches, None against a response
\* does not, and two responses are compared as compare_outputs compares them.
compare_api_responses(response1, response2) ==
    IF IsNone(response1) /\ IsNone(response2) THEN <<TRUE, "MATCH">>
    ELSE IF IsNone(response1) \/ IsNone(response2)
    THEN <<FALSE, "One response is empty, other is not">>
    ELSE compare_outputs(response1, response2)

verify_same_input_data_batch(df_api1, df_api2) ==
    IF Len(df_api1) # Len(df_api2)
    THEN <<FALSE, "Different number of batches: api_1=" \o ToString(Len(df_api1))
                  \o ", api_2=" \o ToString(Len(df_api2))>>
    ELSE IF \E i \in 1..Len(df_api1) : PyStr(df_api1[i].batch_id) # PyStr(df_api2[i].batch_id)
    THEN <<FALSE, "Batch IDs don't match - files may not be aligned">>
    ELSE LET descs == { i \in 1..Len(df_api1) :
                          NotEqual(parse_json_field(df_api1[i].descriptions_json),
                                   parse_json_field(df_api2[i].descriptions_json)) }
             memos == { i \in 1..Len(df_api1) :
                          NotEqual(parse_json_field(df_api1[i].memos_json),
                                   parse_json_field(df_api2[i].memos_json)) }
             First(S) == CHOOSE i \in S : \A j \in S : i <= j
         IN IF descs # {}
            THEN <<FALSE, "descriptions_json don't match at batch " \o ToString(First(descs))>>
            ELSE IF memos # {}
            THEN <<FALSE, "memos_json don't match at batch " \o ToString(First(memos))>>
            ELSE <<TRUE, "Input data verified as identical">>

\* One entry of comparison_data.
BatchOutRow(id, descs, memos, response, comment) ==
    [batch_id |-> id, descriptions_match |-> descs, memos_match |-> memos,
     api_response_match |-> response, comment |-> comment]

\* The three comparisons the loop makes of two rows whose batch ids agree.
FieldsMatch(row_api1, row_api2) ==
    [desc |-> compare_json_arrays(parse_json_field(row_api1.descriptions_json),
                                  parse_json_field(row_api2.descriptions_json),
                                  "descriptions_json"),
     memo |-> compare_json_arrays(parse_json_field(row_api1.memos_json),
                                  parse_json_field(row_api2.memos_json), "memos_json"),
     resp |-> compare_api_responses(parse_json_field(row_api1.api_response_json),
                                    parse_json_field(row_api2.api_response_json))]

\* overall_status and overall_comment of the loop.
Overall(fields) ==
    IF ~fields.desc[1] \/ ~fields.memo[1]
    THEN <<"DATA_MISMATCH", "Input mismatch: " \o fields.desc[2] \o "; " \o fields.memo[2]>>
    ELSE IF ~fields.resp[1] THEN <<"MISMATCH", fields.resp[2]>>
    ELSE <<"MATCH", "All fields match">>

\* The body of the loop for the 1-based index idx.
CompareBatch(df_api1, df_api2, idx) ==
    IF idx > Len(df_api1) THEN
        BatchOutRow(df_api2[idx].batch_id, "MISSING_BATCH", "MISSING_BATCH", "DATA_MISMATCH",
                    "Batch exists only in api_2")
    ELSE IF idx > Len(df_api2) THEN
        BatchOutRow(df_api1[idx].batch_id, "MISSING_BATCH", "MISSING_BATCH", "DATA_MISMATCH",
                    "Batch exists only in api_1")
    ELSE LET batch_id_api1 == PyStr(df_api1[idx].batch_id)
             batch_id_api2 == PyStr(df_api2[idx].batch_id)
             fields == FieldsMatch(df_api1[idx], df_api2[idx])
         IN IF batch_id_api1 # batch_id_api2 THEN
                BatchOutRow(STR("api_1=" \o batch_id_api1 \o ", api_2=" \o batch_id_api2),
                            "DATA_MISMATCH", "DATA_MISMATCH", "DATA_MISMATCH",
                            "Batch IDs don't match - batches are not aligned!")
            ELSE BatchOutRow(STR(batch_id_api1),
                             IF fields.desc[1] THEN "MATCH" ELSE "MISMATCH",
                             IF fields.memo[1] THEN "MATCH" ELSE "MISMATCH",
                             IF fields.resp[1] THEN "MATCH" ELSE "MISMATCH",
                             Overall(fields)[2])

\* The match_status column, computed from the three columns once the loop is over.
InputIssues == {"MISMATCH", "MISSING_BATCH", "DATA_MISMATCH"}
WithStatus(row) ==
    [batch_id |-> row.batch_id, descriptions_match |-> row.descriptions_match,
     memos_match |-> row.memos_match, api_response_match |-> row.api_response_match,
     comment |-> row.comment,
     match_status |->
        IF row.descriptions_match \in InputIssues \/ row.memos_match \in InputIssues
        THEN "DATA_MISMATCH"
        ELSE IF /\ row.api_response_match = "MATCH" /\ row.descriptions_match = "MATCH"
                /\ row.memos_match = "MATCH"
        THEN "MATCH" ELSE "MISMATCH"]

compare_batched_csv(api1, api2) ==
    LET df_api1 == read_batched_csv(api1)
        df_api2 == read_batched_csv(api2)
        verification == verify_same_input_data_batch(df_api1, df_api2)
        comparison_data ==
            [ idx \in 1..Max(Len(df_api1), Len(df_api2)) |->
                WithStatus(CompareBatch(df_api1, df_api2, idx)) ]
    IN IF Len(comparison_data) = 0 THEN Raised
       ELSE [raised |-> FALSE,
             comparison_df |-> comparison_data,
             stats |-> [matches |-> CountStatus(comparison_data, "MATCH"),
                        mismatches |-> CountStatus(comparison_data, "MISMATCH"),
                        data_mismatches |-> CountStatus(comparison_data, "DATA_MISMATCH"),
                        verification |-> verification[2]]]

\* Inputs of compare_batched_csv: files of up to MaxBatches batches whose ids,
\* arrays and responses may differ, or one batch a side over more texts.
ArrayTexts == {"", "[]", "[1]", "[\"1\"]", "[\"d\"]", "[\"e\"]", "[\"d\", \"e\"]"}
ResponseTexts == {"", "{oops", Payload, "{\"x\": \"a\"}"}
Api1Batches == { BatchRow(id, "[\"d\"]", "[\"d\"]", Payload) : id \in {"1", "t"} }
Api2Batches ==
    { BatchRow(id, descs, memos, response) :
        id \in {"1", "2"}, descs \in {"[\"d\"]", "[\"e\"]"}, memos \in {"[\"d\"]", "[\"e\"]"},
        response \in {Payload, "{\"x\": \"a\"}"} }

InitBatch ==
    /\ pc = "batches"
    /\ \/ /\ api1_csv \in SeqsUpTo(Api1Batches, MaxBatches)
          /\ api2_csv \in SeqsUpTo(Api2Batches, MaxBatches)
       \/ /\ api1_csv \in { <<BatchRow("1", descs, "[\"d\"]", response)>> :
                              descs \in ArrayTexts, response \in ResponseTexts }
          /\ api2_csv \in { <<BatchRow("1", descs, memos, response)>> :
                              descs \in ArrayTexts, memos \in {"", "[\"d\"]", "[\"e\"]"},
                              response \in ResponseTexts }
    /\ partition = NoPartition
    /\ output1 = DICT(<<>>) /\ output2 = DICT(<<>>) /\ result = NoResult
    /\ NoRun
    /\ NoTest

CompareBatchedCsv ==
    /\ pc = "batches"
    /\ partition' = compare_batched_csv(api1_csv, api2_csv)
    /\ pc' = "batches_done"
    /\ UNCHANGED <<api1_csv, api2_csv>>
    /\ UNCHANGED <<differVars, inputVars, runVars, harnessVars>>

NextBatch == CompareBatchedCsv

SpecBatch == InitBatch /\ [][NextBatch]_vars

(***************************************************************************)
(* The Parallel Reconciler (compare_all_parts).                            *)
(***************************************************************************)
\* The code points of "<part>.csv", what follows "output_part_" in a file name.
NameTail(part) == Digits(part) \o <<46, 99, 115, 118>>

\* sorted(glob.glob(".../output_part_*.csv")): the part numbers of a folder in the
\* lexicographic order of the file names.
RECURSIVE SortedFiles(_)
SortedFiles(parts) ==
    IF parts = {} THEN <<>>
    ELSE LET first == CHOOSE x \in parts :
                        \A y \in parts : ~LexLess(NameTail(y), NameTail(x))
         IN <<first>> \o SortedFiles(parts \ {first})

\* sorted(all_comparisons.keys())
RECURSIVE SortedInts(_)
SortedInts(ks) ==
    IF ks = {} THEN <<>>
    ELSE LET m == CHOOSE x \in ks : \A y \in ks : x <= y
         IN <<m>> \o SortedInts(ks \ {m})

\* max(1, int(mp.cpu_count() * 0.75))
num_workers == Max(1, (cpu_count * 3) \div 4)

\* dict helpers on the insertion-ordered (key, value) pairs.
PairKeys(d) == { d[i][1] : i \in 1..Len(d) }
PairGet(d, key) == d[CHOOSE i \in 1..Len(d) : d[i][1] = key][2]
RECURSIVE PairValues(_, _)
PairValues(d, ks) ==
    IF ks = <<>> THEN <<>> ELSE <<PairGet(d, ks[1])>> \o PairValues(d, Tail(ks))
\* Mutant: the frames are taken in the order they were stored.
KeysAsStored(d) == [ i \in 1..Len(d) |-> d[i][1] ]
\* The order the frames are concatenated in: sorted(all_comparisons.keys()).
KeysInOrder(d) == SortedInts(PairKeys(d))

\* pd.concat(frames, ignore_index=True)
RECURSIVE Concat(_)
Concat(frames) == IF frames = <<>> THEN <<>> ELSE Head(frames) \o Concat(Tail(frames))

RECURSIVE Sum(_, _)
Sum(stats, field) ==
    IF stats = <<>> THEN 0 ELSE Head(stats)[2][field] + Sum(Tail(stats), field)

\* The rows whose match_status is MISMATCH or DATA_MISMATCH.
RECURSIVE MismatchesOnly(_)
MismatchesOnly(rows) ==
    IF rows = <<>> THEN <<>>
    ELSE (IF Head(rows).match_status \in {"MISMATCH", "DATA_MISMATCH"}
          THEN <<Head(rows)>> ELSE <<>>) \o MismatchesOnly(Tail(rows))

\* The call a unit of work makes.
RunPair(pair) == compare_csv_files(api1_files[pair[1]], api2_files[pair[2]])

\* The lines the run prints that the model keeps.
NoApi1Files == "ERROR: No CSV files found in api_1 folder!"
NoApi2Files == "ERROR: No CSV files found in api_2 folder!"
DifferentCounts == "WARNING: Different number of CSV files!"
GeneratedException(part_num) == "[Part " \o ToString(part_num) \o "] Generated an exception"
SavedCombined == "Saved combined comparison"
SavedMismatches == "Saved mismatches only"
SavedSummary == "Saved summary report"
PerfectMatch == "PERFECT MATCH! All outputs are identical between api_1 and api_2!"

\* Mutant: the pairs are made up to the longer list, the last file of the shorter
\* one standing in where it has none.
PairsUpToLonger(api1, api2) ==
    [ i \in 1..Max(Len(api1), Len(api2)) |->
        <<api1[Min(i, Len(api1))], api2[Min(i, Len(api2))], i>> ]
\* file_pairs of the two sorted lists of files.
PairsByPosition(api1, api2) ==
    [ i \in 1..Min(Len(api1), Len(api2)) |-> <<api1[i], api2[i], i>> ]

\* Discovery, and in parallel mode the submission of every pair.
Discover ==
    /\ pc = "start"
    /\ LET api1 == SortedFiles(DOMAIN api1_files)
           api2 == SortedFiles(DOMAIN api2_files)
       IN IF api1 = <<>>
          THEN /\ pc' = "returned" /\ log' = Append(log, NoApi1Files)
               /\ UNCHANGED <<file_pairs, futures>>
          ELSE IF api2 = <<>>
          THEN /\ pc' = "returned" /\ log' = Append(log, NoApi2Files)
               /\ UNCHANGED <<file_pairs, futures>>
          ELSE /\ log' = IF Len(api1) # Len(api2) THEN Append(log, DifferentCounts) ELSE log
               /\ file_pairs' = PairsByPosition(api1, api2)
               /\ IF use_multiprocessing
                  THEN /\ futures' = [ i \in DOMAIN file_pairs' |-> "pending" ]
                       /\ pc' = "collecting"
                  ELSE /\ futures' = futures
                       /\ pc' = "sequential"
    /\ UNCHANGED <<all_comparisons, all_stats, combined_df, reports, run>>
    /\ UNCHANGED <<differVars, rowVars, inputVars, harnessVars>>

Running == { p \in DOMAIN futures : futures[p] = "running" }
Pending == { p \in DOMAIN futures : futures[p] = "pending" }

\* An idle worker process takes the oldest pending call.
StartWorker ==
    /\ pc = "collecting"
    /\ Pending # {}
    /\ Cardinality(Running) < num_workers
    /\ LET p == CHOOSE x \in Pending : \A y \in Pending : x <= y
       IN futures' = [futures EXCEPT ![p] = "running"]
    /\ UNCHANGED <<pc, file_pairs, all_comparisons, all_stats, combined_df, reports, log, run>>
    /\ UNCHANGED <<differVars, rowVars, inputVars, harnessVars>>

\* A worker process ends its call, by returning or by raising.
FinishWorker(p) ==
    /\ pc = "collecting"
    /\ futures[p] = "running"
    /\ futures' = [futures EXCEPT ![p] = "finished"]
    /\ UNCHANGED <<pc, file_pairs, all_comparisons, all_stats, combined_df, reports, log, run>>
    /\ UNCHANGED <<differVars, rowVars, inputVars, harnessVars>>

\* as_completed hands the coordinator a finished future: future.result() either
\* returns the partition, which is stored, or raises, which is printed.
Collect(p) ==
    /\ pc = "collecting"
    /\ futures[p] = "finished"
    /\ futures' = [futures EXCEPT ![p] = "collected"]
    /\ LET returned == RunPair(file_pairs[p])
       IN IF returned.raised
          THEN /\ log' = Append(log, GeneratedException(p))
               /\ UNCHANGED <<all_comparisons, all_stats>>
          ELSE /\ all_comparisons' = Append(all_comparisons, <<p, returned.comparison_df>>)
               /\ all_stats' = Append(all_stats, <<p, returned.stats>>)
               /\ log' = log
    /\ UNCHANGED <<pc, file_pairs, combined_df, reports, run>>
    /\ UNCHANGED <<differVars, rowVars, inputVars, harnessVars>>

\* Sequential mode: the next pair of file_pairs; what it raises ends the run.
SequentialStep ==
    /\ pc = "sequential"
    /\ Len(all_comparisons) < Len(file_pairs)
    /\ LET pair == file_pairs[Len(all_comparisons) + 1]
           returned == RunPair(pair)
       IN IF returned.raised
          THEN pc' = "crashed" /\ UNCHANGED <<all_comparisons, all_stats>>
          ELSE /\ all_comparisons' = Append(all_comparisons, <<pair[3], returned.comparison_df>>)
               /\ all_stats' = Append(all_stats, <<pair[3], returned.stats>>)
               /\ pc' = pc
    /\ UNCHANGED <<file_pairs, futures, combined_df, reports, log, run>>
    /\ UNCHANGED <<differVars, rowVars, inputVars, harnessVars>>

\* Mutant: the loop over the futures is left at the first one collected.
AnyCollected == \E p \in DOMAIN futures : futures[p] = "collected"
\* as_completed has handed over every future, and the executor has shut down.
AllCollected == \A p \in DOMAIN futures : futures[p] = "collected"

\* The summary file: the totals the percentages are taken of.
Summary(combined, stats) ==
    [total_rows |-> Len(combined),
     total_matches |-> Sum(stats, "matches"),
     total_mismatches |-> Sum(stats, "mismatches"),
     total_data_mismatches |-> Sum(stats, "data_mismatches")]

\* Everything after the loops: the frames are ordered and concatenated (pd.concat
\* raises on no frame at all), the combined table is written, the mismatches are
\* written if there are any, the percentages are printed (a division by the number
\* of rows), the perfect match is announced if total_mismatches is 0, and the
\* summary is written.
Report ==
    /\ \/ pc = "collecting" /\ AllCollected
       \/ pc = "sequential" /\ Len(all_comparisons) = Len(file_pairs)
    /\ IF all_comparisons = <<>>
       THEN pc' = "crashed" /\ UNCHANGED <<combined_df, reports, log>>
       ELSE LET combined == Concat(PairValues(all_comparisons, KeysInOrder(all_comparisons)))
                mismatches_df == MismatchesOnly(combined)
                saved == [reports EXCEPT
                            !.combined_comparison = <<combined>>,
                            !.mismatch_only = IF Len(mismatches_df) > 0
                                              THEN <<mismatches_df>> ELSE @]
                printed == Append(log, SavedCombined)
                           \o (IF Len(mismatches_df) > 0 THEN <<SavedMismatches>> ELSE <<>>)
            IN /\ combined_df' = combined
               /\ IF Len(combined) = 0
                  THEN /\ reports' = saved
                       /\ log' = printed
                       /\ pc' = "crashed"
                  ELSE /\ reports' = [saved EXCEPT !.summary = <<Summary(combined, all_stats)>>]
                       /\ log' = printed
                                 \o (IF Sum(all_stats, "mismatches") > 0
                                     THEN <<>> ELSE <<PerfectMatch>>)
                                 \o <<SavedSummary>>
                       /\ pc' = "done"
    /\ UNCHANGED <<file_pairs, futures, all_comparisons, all_stats, run>>
    /\ UNCHANGED <<differVars, rowVars, inputVars, harnessVars>>

\* The part files of one pair of folders.  File number `part` of a folder holds
\* one row whose transaction_id is the part number, as the harness numbers the
\* rows with one row to a file; what the api_2 side holds against it is the
\* part's kind; an "empty" part is a header without rows on both sides, and in
\* an "extra_row" part the api_2 file answers differently and has a row more.
PartKinds == {"same", "other_payload", "other_description", "empty", "extra_row"}
Api1File(part, kind) ==
    IF kind = "empty" THEN <<>> ELSE <<CsvRow(ToString(part), "d", "m", Payload)>>
Api2File(part, kind) ==
    IF kind = "empty" THEN <<>>
    ELSE IF kind = "other_payload" THEN <<CsvRow(ToString(part), "d", "m", "{\"x\": \"a\"}")>>
    ELSE IF kind = "other_description" THEN <<CsvRow(ToString(part), "e", "m", Payload)>>
    ELSE IF kind = "extra_row"
    THEN <<CsvRow(ToString(part), "d", "m", "{\"x\": \"a\"}"),
           CsvRow(ToString(part + 1), "d", "m", Payload)>>
    ELSE <<CsvRow(ToString(part), "d", "m", Payload)>>
KindOf(kinds, part) == IF part \in DOMAIN kinds THEN kinds[part] ELSE "same"

\* The two folders as the harness writes them: output_part_1 .. output_part_n.
HarnessFolders(n1, n2, kinds) ==
    <<[ part \in 1..n1 |-> Api1File(part, KindOf(kinds, part)) ],
      [ part \in 1..n2 |-> Api2File(part, KindOf(kinds, part)) ]>>
\* Two folders holding any part files, every one of them good.
AnyFolders(parts1, parts2) ==
    <<[ part \in parts1 |-> Api1File(part, "same") ],
      [ part \in parts2 |-> Api2File(part, "same") ]>>

\* A run in either mode over folders of at most MaxParts files, or a sequential
\* run over longer folders the harness wrote.
Init ==
    /\ pc = "start"
    /\ \/ /\ \E folders \in
                { HarnessFolders(n1, n2, kinds) :
                    n1 \in 0..MaxParts, n2 \in 0..MaxParts,
                    kinds \in [1..MaxParts -> PartKinds] }
                \cup { AnyFolders(parts1, parts2) :
                         parts1 \in SUBSET (1..MaxParts), parts2 \in SUBSET (1..MaxParts) } :
                api1_files = folders[1] /\ api2_files = folders[2]
          /\ use_multiprocessing \in BOOLEAN
          /\ cpu_count \in 1..MaxCpu
       \/ /\ \E n \in (MaxParts + 1)..MaxHarnessParts, kinds \in [1..MaxParts -> PartKinds] :
                /\ api1_files = HarnessFolders(n, n, kinds)[1]
                /\ api2_files = HarnessFolders(n, n, kinds)[2]
          /\ use_multiprocessing = FALSE
          /\ cpu_count = 1
    /\ NoRunYet
    /\ NoTest
    /\ output1 = DICT(<<>>) /\ output2 = DICT(<<>>) /\ result = NoResult
    /\ api1_csv = <<>> /\ api2_csv = <<>> /\ partition = NoPartition

Next ==
    \/ Discover
    \/ StartWorker
    \/ \E p \in DOMAIN futures : FinishWorker(p)
    \/ \E p \in DOMAIN futures : Collect(p)
    \/ SequentialStep
    \/ Report

Spec == Init /\ [][Next]_vars

\* When each step of the coordinator can be taken.
CanCollect(p) == pc = "collecting" /\ p \in DOMAIN futures /\ futures[p] = "finished"
CanStep == pc = "sequential" /\ Len(all_comparisons) < Len(file_pairs)
CanReport ==
    \/ pc = "collecting" /\ AllCollected
    \/ pc = "sequential" /\ Len(all_comparisons) = Len(file_pairs)

\* The coordinator is a running process: a step of it that stays possible is
\* taken (weak fairness, its enabling condition written out).  The executor hands
\* a pending call to an idle worker, and a call that is started ends:
\* compare_csv_files reads two files and loops once over their rows.
Fairness ==
    /\ []<>(pc # "start") \/ []<><<Discover>>_vars
    /\ \A p \in 1..MaxParts : []<>(~CanCollect(p)) \/ []<><<CanCollect(p) /\ Collect(p)>>_vars
    /\ []<>(~CanStep) \/ []<><<SequentialStep>>_vars
    /\ []<>(~CanReport) \/ []<><<Report>>_vars
    /\ WF_vars(StartWorker)
    /\ \A p \in 1..MaxParts : WF_vars(p \in DOMAIN futures /\ FinishWorker(p))
SpecFair == Init /\ [][Next]_vars /\ Fairness

(***************************************************************************)
(* Runs of compare_all_parts one after another over one root directory:    *)
(* the harness rewrites the two folders, the comparison folder stays.      *)
(***************************************************************************)
RunFolders ==
    { HarnessFolders(n, n, kinds) :
        n \in 1..MaxRunParts, kinds \in [1..MaxRunParts -> PartKinds] }

InitRuns ==
    /\ pc = "start"
    /\ \E folders \in RunFolders : api1_files = folders[1] /\ api2_files = folders[2]
    /\ use_multiprocessing \in BOOLEAN
    /\ cpu_count \in 1..MaxCpu
    /\ NoRunYet
    /\ NoTest
    /\ output1 = DICT(<<>>) /\ output2 = DICT(<<>>) /\ result = NoResult
    /\ api1_csv = <<>> /\ api2_csv = <<>> /\ partition = NoPartition

\* The run has ended (by returning or by an exception), the folders are written
\* anew and compare_all_parts is called again.
NewRun ==
    /\ pc \in {"done", "returned", "crashed"}
    /\ run < MaxRuns
    /\ run' = run + 1
    /\ pc' = "start"
    /\ \E folders \in RunFolders : api1_files' = folders[1] /\ api2_files' = folders[2]
    /\ file_pairs' = <<>> /\ futures' = <<>>
    /\ all_comparisons' = <<>> /\ all_stats' = <<>>
    /\ combined_df' = <<>> /\ log' = <<>>
    /\ UNCHANGED <<reports, use_multiprocessing, cpu_count>>
    /\ UNCHANGED <<differVars, rowVars, harnessVars>>

NextRuns ==
    \/ Discover
    \/ StartWorker
    \/ \E p \in DOMAIN futures : FinishWorker(p)
    \/ \E p \in DOMAIN futures : Collect(p)
    \/ SequentialStep
    \/ Report
    \/ NewRun

SpecRuns == InitRuns /\ [][NextRuns]_vars

(***************************************************************************)
(* Inputs of the Structural Differ.                                        *)
(***************************************************************************)
Keys == {"x", "y"}
Scalars == {STR("a"), STR("b"), INT(1), BOOL(TRUE)}

\* Every JSON value of at most three nodes over Scalars and Keys.
Atoms == Scalars \cup {LIST(<<>>), DICT(<<>>)}
Nested ==
    { LIST(<<v>>) : v \in Atoms } \cup { DICT(<< <<key, v>> >>) : key \in Keys, v \in Atoms }
Small ==
    Atoms \cup Nested
    \cup { LIST(<<v>>) : v \in Nested }
    \cup { LIST(<<v, w>>) : v \in Atoms, w \in Atoms }
    \cup { DICT(<< <<key, v>> >>) : key \in Keys, v \in Nested }
    \cup { DICT(<< <<k1, v>>, <<k2, w>> >>) :
             <<k1, k2, v, w>> \in { q \in Keys \X Keys \X Atoms \X Atoms : q[1] # q[2] } }

\* Lists of records (and of a scalar among them), bare and under a key.
RecordItems ==
    { DICT(<< <<"x", STR("a")>> >>), DICT(<< <<"x", STR("b")>> >>),
      DICT(<< <<"x", STR("a")>>, <<"y", INT(1)>> >>),
      DICT(<< <<"y", INT(1)>>, <<"x", STR("a")>> >>),
      STR("a") }
ItemLists == { LIST(s) : s \in SeqsUpTo(RecordItems, MaxItems) }
Wrapped == { DICT(<< <<"x", l>> >>) : l \in ItemLists }

\* Long flat lists of scalars: enough elements for more than MaxShown differences.
FlatA == { LIST(s) : s \in SeqsUpTo({STR("a")}, MaxFlat) }
FlatAB == { LIST(s) : s \in SeqsUpTo({STR("a"), STR("b")}, MaxFlat) }

\* Lists of records whose number is a zero of either sign: 0.0 == -0.0 in Python,
\* while json.dumps writes them "0.0" and "-0.0".
ZeroItems ==
    { DICT(<< <<"x", FLOAT(negative, 0)>>, <<"y", STR(s)>> >>) :
        negative \in BOOLEAN, s \in {"a", "b"} }
ZeroLists == { LIST(s) : s \in SeqsUpTo(ZeroItems, MaxItems) }

DifferInputs ==
    (Small \X Small) \cup (ItemLists \X ItemLists) \cup (Wrapped \X Wrapped)
    \cup (FlatA \X FlatAB) \cup (ZeroLists \X ZeroLists)

(***************************************************************************)
(* The Structural Differ applied to one pair of payloads.                  *)
(***************************************************************************)
InitDiffer ==
    /\ pc = "differ"
    /\ \E io \in DifferInputs : output1 = io[1] /\ output2 = io[2]
    /\ result = NoResult
    /\ api1_csv = <<>> /\ api2_csv = <<>> /\ partition = NoPartition
    /\ NoRun
    /\ NoTest

\* Mutant: the lists of dicts are sorted in place and the dicts rebuilt in place.
ArgumentNormalizedInPlace(obj) == normalize_json(obj)
\* What the caller's object holds once compare_outputs has returned:
\* normalize_json builds new dicts and lists (comprehensions, sorted()) and
\* find_diff only reads.
ArgumentAfterCall(obj) == obj

Compare ==
    /\ pc = "differ"
    /\ result' = compare_outputs(output1, output2)
    /\ output1' = ArgumentAfterCall(output1)
    /\ output2' = ArgumentAfterCall(output2)
    /\ pc' = "compared"
    /\ UNCHANGED <<rowVars, inputVars, runVars, harnessVars>>

NextDiffer == Compare

SpecDiffer == InitDiffer /\ [][NextDiffer]_vars

(***************************************************************************)
(* The test harness of sanity_v3.py (APITester.run_test): the table is     *)
(* sent batch by batch and the answers are written to output_part files.   *)
(***************************************************************************)
\* json.dumps of the transaction_json of an answer without outputs.
AnswerJson == "{\"model_name\": \"\", \"model_version\": \"\", \"outputs\": []}"

\* The rows of the table, told apart by their description.
TableRow(i) == [description |-> "d" \o ToString(i), memo |-> "m"]
\* df.iloc[start_idx:end_idx], 0-based and end-exclusive.
Slice(table, start_idx, end_idx) ==
    [ i \in 1..(Min(end_idx, Len(table)) - start_idx) |-> table[start_idx + i] ]

\* How a request can end, as the number of results send_batch_request returns:
\* one per transaction, fewer when the response holds fewer, none when the
\* request failed (a status other than 200, or an exception).
Outcomes(size) ==
    { [success |-> TRUE, results |-> size], [success |-> TRUE, results |-> size - 1],
      [success |-> FALSE, results |-> 0] }

num_batches == Len(df) \div batch_size

\* Mutant: a file is closed once it holds more than rows_per_file rows.
FileIsOverfull(rows_in_file, per_file) == rows_in_file > per_file
\* rows_in_current_file >= rows_per_file
FileIsFull(rows_in_file, per_file) == rows_in_file >= per_file

\* pd.DataFrame(rows).to_csv(output_part_<part>.csv): the file is written anew.
ToCsv(folder, part, rows) ==
    [ k \in DOMAIN folder \cup {part} |-> IF k = part THEN rows ELSE folder[k] ]

\* The loop over the rows of a batch from its i-th row on (0-based): the row is
\* appended to the results of the current file, and the file is written and a
\* new one begun when it is full.  state holds file_counter,
\* rows_in_current_file, current_file_results and the folder.
RECURSIVE WriteRows(_, _, _, _, _)
WriteRows(state, batch_df, start_idx, results, i) ==
    IF i >= Len(batch_df) THEN state
    ELSE LET result_row ==
                [transaction_id |-> start_idx + i + 1,
                 description |-> batch_df[i + 1].description,
                 memo |-> batch_df[i + 1].memo,
                 outputs_json |-> IF i < results THEN AnswerJson ELSE "{}"]
             rows == Append(state.current_file_results, result_row)
             appended == [state EXCEPT !.current_file_results = rows,
                                       !.rows_in_current_file = @ + 1]
         IN WriteRows(IF FileIsFull(appended.rows_in_current_file, rows_per_file)
                      THEN [file_counter |-> state.file_counter + 1,
                            rows_in_current_file |-> 0,
                            current_file_results |-> <<>>,
                            folder |-> ToCsv(state.folder, state.file_counter, rows)]
                      ELSE appended,
                      batch_df, start_idx, results, i + 1)

InitTest ==
    /\ pc = "testing"
    /\ \E L \in 0..MaxTable : df = [ i \in 1..L |-> TableRow(i) ]
    /\ batch_size \in 1..MaxBatchSize
    /\ rows_per_file \in 1..MaxRowsPerFile
    /\ batch_num = 0 /\ file_counter = 1 /\ rows_in_current_file = 0
    /\ current_file_results = <<>> /\ batch_numbers = <<>>
    /\ requests_sent = <<>> /\ output_folder = <<>>
    /\ output1 = DICT(<<>>) /\ output2 = DICT(<<>>) /\ result = NoResult
    /\ api1_csv = <<>> /\ api2_csv = <<>> /\ partition = NoPartition
    /\ NoRun

\* One turn of the loop over the batches: the batch is sent, and its rows are
\* written with what came back.
SendBatch ==
    /\ pc = "testing"
    /\ batch_num < num_batches
    /\ LET start_idx == batch_num * batch_size
           end_idx == start_idx + batch_size
           batch_df == Slice(df, start_idx, end_idx)
           descriptions == [ i \in 1..Len(batch_df) |-> batch_df[i].description ]
       IN \E outcome \in Outcomes(batch_size) :
            LET state == WriteRows([file_counter |-> file_counter,
                                    rows_in_current_file |-> rows_in_current_file,
                                    current_file_results |-> current_file_results,
                                    folder |-> output_folder],
                                   batch_df, start_idx, outcome.results, 0)
            IN /\ requests_sent' = Append(requests_sent,
                                          [descriptions |-> descriptions,
                                           success |-> outcome.success])
               /\ file_counter' = state.file_counter
               /\ rows_in_current_file' = state.rows_in_current_file
               /\ current_file_results' = state.current_file_results
               /\ output_folder' = state.folder
    /\ batch_numbers' = Append(batch_numbers, batch_num + 1)
    /\ batch_num' = batch_num + 1
    /\ UNCHANGED <<pc, df, batch_size, rows_per_file>>
    /\ UNCHANGED <<differVars, rowVars, inputVars, runVars>>

\* Past the loop: the rows of the file that was begun are written, and the
\* average time of a batch is taken, a division by the number of batches.
FinishTest ==
    /\ pc = "testing"
    /\ batch_num = num_batches
    /\ output_folder' = IF rows_in_current_file > 0
                        THEN ToCsv(output_folder, file_counter, current_file_results)
                        ELSE output_folder
    /\ pc' = IF Len(batch_numbers) = 0 THEN "test_crashed" ELSE "tested"
    /\ UNCHANGED <<df, batch_size, rows_per_file, batch_num, file_counter,
                   rows_in_current_file, current_file_results, batch_numbers, requests_sent>>
    /\ UNCHANGED <<differVars, rowVars, inputVars, runVars>>

NextTest == SendBatch \/ FinishTest

SpecTest == InitTest /\ [][NextTest]_vars

(***************************************************************************)
(* Properties of compare_all_parts.                                        *)
(***************************************************************************)
Done == pc = "done"
NoWorkerFails == \A i \in 1..Len(file_pairs) : ~RunPair(file_pairs[i]).raised
\* The partition results concatenated in ascending partition index.
AscendingConcat ==
    Concat([ i \in 1..Len(file_pairs) |-> RunPair(file_pairs[i]).comparison_df ])

\* C10: with no worker failing, the combined table of a parallel run is the
\* partition results concatenated in ascending partition index, whatever the order
\* the workers completed in, and so is the combined table of a sequential run.
C10_PartitionOrderDeterministic ==
    (Done /\ NoWorkerFails) =>
        /\ combined_df = AscendingConcat
        /\ reports.combined_comparison = <<AscendingConcat>>

\* A parallel run whose partitions arrived out of order.
C10_Witness ==
    /\ Done /\ NoWorkerFails /\ use_multiprocessing
    /\ Len(all_comparisons) >= 2
    /\ KeysAsStored(all_comparisons) # KeysInOrder(all_comparisons)

\* Both folders hold output_part_1 .. output_part_N, as the harness writes them.
HarnessWritten ==
    /\ DOMAIN api1_files = 1..Cardinality(DOMAIN api1_files)
    /\ DOMAIN api2_files = DOMAIN api1_files
\* The partition results in the order of the part numbers the harness wrote.
OriginalOrderConcat ==
    Concat([ part \in 1..Cardinality(DOMAIN api1_files) |->
                compare_csv_files(api1_files[part], api2_files[part]).comparison_df ])

\* C11: over folders holding output_part_1 .. output_part_N, the combined table
\* lists the rows of part i before the rows of part j whenever i < j, for every N,
\* each part's rows in their file order.
C11_OriginalFileOrder ==
    (Done /\ HarnessWritten /\ NoWorkerFails) => combined_df = OriginalOrderConcat

\* What holds of C11's runs: the order is that of the part numbers while N < 10.
C11_OriginalFileOrderBelowTen ==
    (Done /\ HarnessWritten /\ NoWorkerFails /\ Cardinality(DOMAIN api1_files) < 10)
        => combined_df = OriginalOrderConcat

Ended == pc \in {"done", "crashed"}
\* Every paired file has a header and no data row.
ZeroRows ==
    /\ file_pairs # <<>>
    /\ \A i \in 1..Len(file_pairs) :
        api1_files[file_pairs[i][1]] = <<>> /\ api2_files[file_pairs[i][2]] = <<>>
NothingCompared ==
    [total_rows |-> 0, total_matches |-> 0, total_mismatches |-> 0,
     total_data_mismatches |-> 0]

\* C14: a run over paired files without any data row ends by returning, not by
\* raising, having written a summary of 0 rows and 0 matches.
C14_ZeroRowsReported ==
    (Ended /\ ZeroRows) => (pc = "done" /\ reports.summary = <<NothingCompared>>)

SomeWorkerFails == \E i \in 1..Len(file_pairs) : RunPair(file_pairs[i]).raised
\* The results of the partitions that did not raise, in ascending partition index.
Survivors == SelectSeq(file_pairs, LAMBDA pair : ~RunPair(pair).raised)
SurvivorsConcat == Concat([ i \in 1..Len(Survivors) |-> RunPair(Survivors[i]).comparison_df ])

\* C15: a run in which a partition raises still ends by returning, the combined
\* table and the summary written from the other partitions, in either mode and
\* for any number of partitions.
C15_FailureIsolated ==
    (Ended /\ SomeWorkerFails) =>
        /\ pc = "done"
        /\ combined_df = SurvivorsConcat
        /\ reports.combined_comparison = <<SurvivorsConcat>>
        /\ reports.summary # <<>>

\* What holds of C15's runs: in parallel mode, with a partition that did not raise,
\* the run ends by returning and the failed partitions alone are absent.
C15_IsolatedInParallelWithASurvivor ==
    (Ended /\ SomeWorkerFails /\ use_multiprocessing /\ Survivors # <<>>) =>
        /\ pc = "done"
        /\ combined_df = SurvivorsConcat
        /\ reports.combined_comparison = <<SurvivorsConcat>>
        /\ reports.summary # <<>>

\* C16: after a run that returned, mismatch_only.csv exists only if the run's
\* combined table has a row that is not MATCH.
C16_NoMismatchFileWithoutMismatch ==
    (Done /\ reports.mismatch_only # <<>>) => MismatchesOnly(combined_df) # <<>>

\* What holds of C16's runs: the first run over a root directory leaves the file
\* exactly when it has such a row.
C16_FirstRunOnly ==
    (Done /\ run = 1) =>
        (reports.mismatch_only # <<>> <=> MismatchesOnly(combined_df) # <<>>)

Discovered == pc \notin {"start", "returned"}
NameLess(p, q) == LexLess(NameTail(p), NameTail(q))
\* The file of a folder that i - 1 of the folder's files come before by name.
IsIth(folder, part, i) ==
    /\ part \in DOMAIN folder
    /\ Cardinality({ q \in DOMAIN folder : NameLess(q, part) }) = i - 1
FileCounts == <<Cardinality(DOMAIN api1_files), Cardinality(DOMAIN api2_files)>>

\* C17: with n1 > 0 and n2 > 0 files, discovery makes min(n1, n2) units; unit i
\* holds the i-th api_1 file and the i-th api_2 file by name, whatever numbers the
\* names carry; n1 # n2 prints the warning and nothing else, and no other pairing
\* is ever compared.
C17_PairedByPosition ==
    /\ (pc # "start" /\ FileCounts[1] > 0 /\ FileCounts[2] > 0) => Discovered
    /\ Discovered =>
        /\ Len(file_pairs) = Min(FileCounts[1], FileCounts[2])
        /\ \A i \in 1..Len(file_pairs) :
            /\ IsIth(api1_files, file_pairs[i][1], i)
            /\ IsIth(api2_files, file_pairs[i][2], i)
            /\ file_pairs[i][3] = i
        /\ DifferentCounts \in Range(log) <=> FileCounts[1] # FileCounts[2]
        /\ \A k \in 1..Len(all_comparisons) :
            /\ all_comparisons[k][1] \in 1..Len(file_pairs)
            /\ all_comparisons[k][2] =
                    RunPair(file_pairs[all_comparisons[k][1]]).comparison_df

\* More api_2 files than api_1 files, the api_1 names not starting at 1.
C17_Witness ==
    /\ Done
    /\ FileCounts[1] = 2 /\ FileCounts[2] = 3
    /\ 1 \notin DOMAIN api1_files
    /\ DifferentCounts \in Range(log)

Saved == {SavedCombined, SavedMismatches, SavedSummary}
TimesPrinted(line) == Cardinality({ i \in 1..Len(log) : log[i] = line })
\* A step that writes a report file.
WritesReport == reports' # reports \/ \E line \in Saved : TimesPrinted(line)' > TimesPrinted(line)

\* C20: a report file is written only by the coordinator's step past the loop,
\* when every submitted partition has ended and been collected, never by a step of
\* a worker, and each file at most once in a run.
C20_ReportsAfterAggregation ==
    /\ [][WritesReport =>
            /\ pc \in {"collecting", "sequential"} /\ pc' \in {"done", "crashed"}
            /\ futures' = futures
            /\ \A p \in DOMAIN futures : futures[p] = "collected"
            /\ ~use_multiprocessing => Len(all_comparisons) = Len(file_pairs)]_vars
    /\ [](\A line \in Saved : TimesPrinted(line) <= 1)

\* A parallel run of several partitions that wrote its three files.
C20_Witness ==
    /\ Done /\ use_multiprocessing /\ Len(futures) >= 2
    /\ TimesPrinted(SavedCombined) = 1 /\ TimesPrinted(SavedMismatches) = 1
    /\ TimesPrinted(SavedSummary) = 1
    /\ \E p \in DOMAIN futures : RunPair(file_pairs[p]).raised

Statuses == {"MATCH", "MISMATCH", "DATA_MISMATCH"}
Totals == reports.summary[1]

\* C26: every outcome row has one of the three statuses; a partition's three
\* counts add up to its number of rows; the partitions that contribute statistics
\* are those that contribute rows; and the totals of a run that reported add up
\* to the number of rows of the combined table, whichever partitions failed.
C26_CountsConsistent ==
    /\ PairKeys(all_stats) = PairKeys(all_comparisons)
    /\ Len(all_stats) = Len(all_comparisons)
    /\ \A k \in 1..Len(all_comparisons) :
        LET frame == all_comparisons[k][2]
            stats == PairGet(all_stats, all_comparisons[k][1])
        IN /\ \A i \in 1..Len(frame) : frame[i].match_status \in Statuses
           /\ stats.matches + stats.mismatches + stats.data_mismatches = Len(frame)
           /\ stats.matches = Cardinality({ i \in 1..Len(frame) : frame[i].match_status = "MATCH" })
           /\ stats.mismatches =
                Cardinality({ i \in 1..Len(frame) : frame[i].match_status = "MISMATCH" })
    /\ Done =>
        /\ reports.combined_comparison = <<combined_df>>
        /\ Totals.total_rows = Len(combined_df)
        /\ Totals.total_matches + Totals.total_mismatches + Totals.total_data_mismatches
                = Len(combined_df)
        /\ Totals.total_matches =
                Cardinality({ i \in 1..Len(combined_df) : combined_df[i].match_status = "MATCH" })
        /\ Totals.total_mismatches =
                Cardinality({ i \in 1..Len(combined_df) :
                                combined_df[i].match_status = "MISMATCH" })

\* A parallel run that lost a partition and reported rows of all three statuses,
\* two of them from one partition.
C26_Witness ==
    /\ Done /\ use_multiprocessing /\ SomeWorkerFails
    /\ Totals.total_matches >= 1 /\ Totals.total_mismatches >= 1
    /\ Totals.total_data_mismatches >= 1
    /\ \E k \in 1..Len(all_comparisons) : Len(all_comparisons[k][2]) = 2

\* C28: the perfect match is announced only by a run whose combined table has
\* no row other than MATCH rows.
C28_PerfectMatchOnlyIfAllMatch ==
    (PerfectMatch \in Range(log)) =>
        \A i \in 1..Len(combined_df) : combined_df[i].match_status = "MATCH"

\* What holds of C28's runs: the announcement is made exactly when no row is
\* MISMATCH, whatever the number of DATA_MISMATCH rows.
C28_PerfectMatchIffNoMismatch ==
    Done =>
        (PerfectMatch \in Range(log) <=>
            \A i \in 1..Len(combined_df) : combined_df[i].match_status # "MISMATCH")

Terminated == pc \in {"done", "crashed", "returned"}
Unfinished(p) == p \in DOMAIN futures /\ futures[p] \in {"pending", "running"}

\* C21: while a dispatched call has not ended the coordinator stays in its loop
\* and no report file is written, so a call that never ends blocks the run for
\* ever; and in the runs in which every call that is started ends, the run
\* terminates.
C21_NoTimeout ==
    /\ [](\A p \in 1..MaxParts :
            Unfinished(p) => (pc = "collecting" /\ reports = NoReports))
    /\ <>Terminated

\* Every other call collected, one still running.
C21_Witness ==
    /\ pc = "collecting" /\ Len(futures) >= 2
    /\ \E p \in DOMAIN futures :
        /\ futures[p] = "running"
        /\ \A q \in DOMAIN futures \ {p} : futures[q] = "collected"

(***************************************************************************)
(* Properties of compare_csv_files and verify_same_input_data.             *)
(***************************************************************************)
RowsDone == pc = "rows_done"
BothHave == 1..Min(Len(api1_csv), Len(api2_csv))
TextDiffers(col, i) == api1_csv[i][col] # api2_csv[i][col]
OutcomeRow(i) == partition.comparison_df[i]
FromDiffer(i) == OutcomeRow(i).match_status \in {"MATCH", "MISMATCH"}

\* C7: at an index both files have, rows whose transaction_id or description
\* differ get DATA_MISMATCH with the not-aligned comment and no output compared,
\* whatever the two payloads are.
C7_AlignmentPrecedence ==
    RowsDone =>
        \A i \in BothHave :
            (TextDiffers("transaction_id", i) \/ TextDiffers("description", i)) =>
                /\ OutcomeRow(i).match_status = "DATA_MISMATCH"
                /\ OutcomeRow(i).comment = NotAligned
                /\ OutcomeRow(i).api_1_output = "N/A"
                /\ OutcomeRow(i).api_2_output = "N/A"

\* Rows with the same id and the same payload whose descriptions differ, and rows
\* with the same description and payload whose ids differ.
C7_Witness ==
    /\ RowsDone
    /\ \E i \in BothHave :
        /\ TextDiffers("description", i) /\ ~TextDiffers("transaction_id", i)
        /\ ~TextDiffers("outputs_json", i)
        /\ OutcomeRow(i).match_status = "DATA_MISMATCH"
    /\ \E i \in BothHave :
        /\ TextDiffers("transaction_id", i) /\ ~TextDiffers("description", i)
        /\ ~TextDiffers("outputs_json", i)
        /\ OutcomeRow(i).match_status = "DATA_MISMATCH"

\* C8: at an index both files have, rows whose echoed inputs are not all equal
\* (transaction_id, description, memo) are DATA_MISMATCH, never MATCH or MISMATCH.
C8_EchoedInputsEqualOrFlagged ==
    RowsDone =>
        \A i \in BothHave :
            (\/ TextDiffers("transaction_id", i)
             \/ TextDiffers("description", i)
             \/ TextDiffers("memo", i)) =>
                (OutcomeRow(i).match_status = "DATA_MISMATCH" /\ ~FromDiffer(i))

\* What the loop does for C8's rows: only rows equal in transaction_id and
\* description are compared on their outputs, the memo not being looked at.
C8_ComparedIffIdAndDescriptionEqual ==
    RowsDone =>
        \A i \in BothHave :
            FromDiffer(i) <=>
                (~TextDiffers("transaction_id", i) /\ ~TextDiffers("description", i))

\* What comparing the two rows at an index both files have makes of them.
NormalStatus(i) ==
    IF TextDiffers("transaction_id", i) \/ TextDiffers("description", i)
    THEN "DATA_MISMATCH"
    ELSE IF compare_outputs(parse_outputs_json(api1_csv[i].outputs_json),
                            parse_outputs_json(api2_csv[i].outputs_json))[1]
    THEN "MATCH" ELSE "MISMATCH"
OnlyInComments == {"Row exists only in api_1", "Row exists only in api_2"}

\* C12: files of m and n < m rows give m outcome rows; the rows both files have
\* are compared as rows of equally long files are, and every row past the shorter
\* file is DATA_MISMATCH, its comment naming the longer side, the missing side's
\* output shown as "MISSING ROW" and the other fields taken from the row itself.
C12_UnequalRowCounts ==
    (RowsDone /\ Len(api1_csv) # Len(api2_csv)) =>
        LET longer == IF Len(api1_csv) > Len(api2_csv) THEN api1_csv ELSE api2_csv
            frame == read_csv(longer)
            side == IF Len(api1_csv) > Len(api2_csv) THEN "api_1" ELSE "api_2"
        IN /\ ~partition.raised
           /\ Len(partition.comparison_df) = Len(longer)
           /\ \A i \in BothHave :
                /\ OutcomeRow(i).match_status = NormalStatus(i)
                /\ OutcomeRow(i).comment \notin OnlyInComments
                /\ OutcomeRow(i).api_1_output # "MISSING ROW"
                /\ OutcomeRow(i).api_2_output # "MISSING ROW"
           /\ \A i \in (1..Len(longer)) \ BothHave :
                /\ OutcomeRow(i).match_status = "DATA_MISMATCH"
                /\ OutcomeRow(i).comment = "Row exists only in " \o side
                /\ OutcomeRow(i).api_1_output =
                        IF side = "api_1" THEN longer[i].outputs_json ELSE "MISSING ROW"
                /\ OutcomeRow(i).api_2_output =
                        IF side = "api_2" THEN longer[i].outputs_json ELSE "MISSING ROW"
                /\ OutcomeRow(i).transaction_id = frame[i].transaction_id
                /\ OutcomeRow(i).description = frame[i].description
                /\ OutcomeRow(i).memo = frame[i].memo

\* The api_2 file has a row more than the api_1 file, which has one.
C12_Witness ==
    /\ RowsDone /\ Len(api1_csv) >= 1 /\ Len(api2_csv) > Len(api1_csv)
    /\ OutcomeRow(Len(api2_csv)).comment = "Row exists only in api_2"
    /\ OutcomeRow(1).match_status = "MISMATCH"

Aligned(i) == ~TextDiffers("transaction_id", i) /\ ~TextDiffers("description", i)
Parsed1(i) == parse_outputs_json(api1_csv[i].outputs_json)
Parsed2(i) == parse_outputs_json(api2_csv[i].outputs_json)
\* Row i has an empty payload on one side and a non-empty object on the other.
EmptyAgainstObject(i) ==
    /\ Aligned(i)
    /\ \/ api1_csv[i].outputs_json = "" /\ Parsed2(i).v # <<>>
       \/ api2_csv[i].outputs_json = "" /\ Parsed1(i).v # <<>>
\* The Difference of every top-level key of the non-empty side, in sorted order.
RECURSIVE OnlyInTexts(_, _)
OnlyInTexts(ks, side) ==
    IF ks = <<>> THEN <<>>
    ELSE <<"root." \o Head(ks) \o ": only in " \o side>> \o OnlyInTexts(Tail(ks), side)
KeyDifferences(i) ==
    IF api1_csv[i].outputs_json = ""
    THEN OnlyInTexts(SortedKeys(DictKeys(Parsed2(i))), "api_2")
    ELSE OnlyInTexts(SortedKeys(DictKeys(Parsed1(i))), "api_1")

\* C13 as the specification states it: the row is MISMATCH and its comment holds an
\* "only in <other side>" Difference for every top-level key, however many.
C13_DifferencePerKey ==
    RowsDone =>
        \A i \in BothHave :
            EmptyAgainstObject(i) =>
                /\ OutcomeRow(i).match_status = "MISMATCH"
                /\ OutcomeRow(i).comment = Join(" | ", KeyDifferences(i))

\* C13 as the code has it: the comment holds the Differences of the first
\* min(|K|, 5) keys in sorted order.
C13_DifferencePerShownKey ==
    RowsDone =>
        \A i \in BothHave :
            EmptyAgainstObject(i) =>
                /\ OutcomeRow(i).match_status = "MISMATCH"
                /\ OutcomeRow(i).comment =
                     Join(" | ", SubSeq(KeyDifferences(i), 1, Min(Len(KeyDifferences(i)), 5)))

\* An empty api_1 payload against an object of six keys.
C13_Witness ==
    /\ RowsDone /\ 1 \in BothHave /\ EmptyAgainstObject(1)
    /\ api1_csv[1].outputs_json = "" /\ Len(KeyDifferences(1)) = 6
    /\ OutcomeRow(1).match_status = "MISMATCH"

\* The texts parse_outputs_json takes for no payload: empty, "{}", unparseable,
\* JSON that is not an object; and the texts parse_json_field takes for none.
EmptyOutputs == {"", "{}", "{oops", "[1]", "[]"}
EmptyFields == {"", "{}", "[]", "{oops"}
PayloadsOf(i) == {api1_csv[i].outputs_json, api2_csv[i].outputs_json}

\* C19: parse_outputs_json maps every text of EmptyOutputs to {} and
\* parse_json_field every text of EmptyFields to None, neither raising, and two
\* aligned rows whose payloads are both of EmptyOutputs are a MATCH.
C19_BadInputIsOneSentinel ==
    RowsDone =>
        \A i \in BothHave :
            /\ \A text \in PayloadsOf(i) \cap EmptyOutputs :
                    parse_outputs_json(text) = DICT(<<>>)
            /\ \A text \in PayloadsOf(i) \cap EmptyFields :
                    parse_json_field(text) = NONE
            /\ (Aligned(i) /\ PayloadsOf(i) \subseteq EmptyOutputs) =>
                    /\ ~partition.raised
                    /\ OutcomeRow(i).match_status = "MATCH"
                    /\ OutcomeRow(i).comment = "MATCH"

\* An unparseable payload against JSON that is not an object.
C19_Witness ==
    /\ RowsDone /\ 1 \in BothHave /\ Aligned(1)
    /\ api1_csv[1].outputs_json = "{oops" /\ api2_csv[1].outputs_json = "[1]"
    /\ OutcomeRow(1).match_status = "MATCH"

Verified == verify_same_input_data(read_csv(api1_csv), read_csv(api2_csv))
ColumnDiffers(col) == \E i \in BothHave : TextDiffers(col, i)

\* C9: verified is false exactly when the lengths differ, or the identifier column
\* differs somewhere, or a content column (description, memo) differs somewhere.
C9_VerdictExact ==
    RowsDone =>
        (Verified[1] = FALSE <=>
            \/ Len(api1_csv) # Len(api2_csv)
            \/ ColumnDiffers("transaction_id")
            \/ ColumnDiffers("description")
            \/ ColumnDiffers("memo"))

\* What the checker does decide: lengths, identifiers and descriptions, and the
\* message it hands to the partition statistics.
C9_VerdictWithoutMemo ==
    RowsDone =>
        /\ Verified[1] = FALSE <=>
            \/ Len(api1_csv) # Len(api2_csv)
            \/ ColumnDiffers("transaction_id")
            \/ ColumnDiffers("description")
        /\ ~partition.raised => partition.stats.verification = Verified[2]
        /\ Verified[1] <=> Verified[2] = "Input data verified as identical"

\* C27: verify_same_input_data answers true exactly when compare_csv_files of the
\* same two tables produces no DATA_MISMATCH row.
C27_VerifiedIffNoDataMismatch ==
    RowsDone =>
        (Verified[1] <=> CountStatus(partition.comparison_df, "DATA_MISMATCH") = 0)

\* Equally long files with the same identifiers, a description differing.
C27_Witness ==
    /\ RowsDone /\ Len(api1_csv) = 2 /\ Len(api2_csv) = 2
    /\ ~ColumnDiffers("transaction_id") /\ ColumnDiffers("description")
    /\ ~Verified[1]
    /\ CountStatus(partition.comparison_df, "DATA_MISMATCH") = 1

\* The outcome of comparing the two rows of index i as files of one row each.
Alone(i) == compare_csv_files(<<api1_csv[i]>>, <<api2_csv[i]>>).comparison_df[1]

\* C24: whatever verify_same_input_data answers, compare_csv_files emits one
\* outcome row per index up to the longer file, in index order; each row's status
\* and comment are those its two rows get when compared by themselves, and the
\* verification shows only as the message of the statistics.
C24_VerificationAdvisory ==
    (RowsDone /\ ~partition.raised) =>
        /\ Len(partition.comparison_df) = Max(Len(api1_csv), Len(api2_csv))
        /\ \A i \in BothHave :
                /\ OutcomeRow(i).match_status = Alone(i).match_status
                /\ OutcomeRow(i).comment = Alone(i).comment
                /\ OutcomeRow(i).match_status = NormalStatus(i)
                /\ OutcomeRow(i).description = STR(api1_csv[i].description)
        /\ \A i \in (1..Len(partition.comparison_df)) \ BothHave :
                /\ OutcomeRow(i).match_status = "DATA_MISMATCH"
                /\ OutcomeRow(i).comment \in OnlyInComments
        /\ partition.stats.verification = Verified[2]

\* The verification fails on the second row while the first rows match.
C24_Witness ==
    /\ RowsDone /\ Len(api1_csv) = 2 /\ Len(api2_csv) = 2
    /\ ~Verified[1]
    /\ OutcomeRow(1).match_status = "MATCH"
    /\ OutcomeRow(2).match_status = "DATA_MISMATCH"

(***************************************************************************)
(* Properties of APITester.run_test.                                       *)
(***************************************************************************)
TestEnded == pc \in {"tested", "test_crashed"}
\* floor(L / b) * b
RowsSent == (Len(df) \div batch_size) * batch_size
\* ceil(RowsSent / r)
FilesDue == (RowsSent + rows_per_file - 1) \div rows_per_file
PartFile(k) == output_folder[k]
\* Every row written, file after file in the order of the part numbers.
RowsWritten == Concat([ k \in 1..FilesDue |-> PartFile(k) ])
BatchOf(transaction_id) == ((transaction_id - 1) \div batch_size) + 1

BatchesDone == pc = "batches_done" /\ ~partition.raised
BatchOutcome(i) == partition.comparison_df[i].match_status
OnOneSide(i) == i > Len(api1_csv) \/ i > Len(api2_csv)
BatchIdsDiffer(i) == api1_csv[i].batch_id # api2_csv[i].batch_id
\* The two arrays of a column are different JSON values, or one alone is empty.
ArraysDiffer(col, i) ==
    NotEqual(parse_json_field(api1_csv[i][col]), parse_json_field(api2_csv[i][col]))
\* The two arrays differ as compare_json_arrays takes them: one alone is empty,
\* the lengths differ, or the str() of two items at one index differ.
ArraysDifferAsStr(col, i) ==
    LET arr1 == parse_json_field(api1_csv[i][col])
        arr2 == parse_json_field(api2_csv[i][col])
    IN IF IsNone(arr1) \/ IsNone(arr2) THEN IsNone(arr1) # IsNone(arr2)
       ELSE \/ Len(arr1.v) # Len(arr2.v)
            \/ \E j \in 1..Len(arr1.v) : StrValue(arr1.v[j]) # StrValue(arr2.v[j])
ResponsesDiffer(i) ==
    ~compare_api_responses(parse_json_field(api1_csv[i].api_response_json),
                           parse_json_field(api2_csv[i].api_response_json))[1]
\* overall_status of the loop, where the loop chooses one.
OverallStatus(i) ==
    Overall(FieldsMatch(read_batched_csv(api1_csv)[i], read_batched_csv(api2_csv)[i]))[1]

\* C29: a batch is DATA_MISMATCH when it is on one side only, when the batch ids
\* differ, or when the descriptions or memos arrays differ, whatever the
\* responses; MISMATCH only when the inputs agree and the responses differ; MATCH
\* only when all three fields match; and the status computed from the three
\* columns is the overall status the loop chose.
C29_BatchStatusPrecedence ==
    BatchesDone =>
        \A i \in 1..Len(partition.comparison_df) :
            LET InputsDiffer ==
                    \/ OnOneSide(i)
                    \/ BatchIdsDiffer(i)
                    \/ ArraysDiffer("descriptions_json", i)
                    \/ ArraysDiffer("memos_json", i)
            IN /\ InputsDiffer => BatchOutcome(i) = "DATA_MISMATCH"
               /\ BatchOutcome(i) = "MISMATCH" => (~InputsDiffer /\ ResponsesDiffer(i))
               /\ BatchOutcome(i) = "MATCH" => (~InputsDiffer /\ ~ResponsesDiffer(i))
               /\ (~OnOneSide(i) /\ ~BatchIdsDiffer(i)) => BatchOutcome(i) = OverallStatus(i)

\* What holds of C29's batches: the same precedence, with arrays that differ as
\* compare_json_arrays takes them, item by item as str.
C29_PrecedenceByStr ==
    BatchesDone =>
        \A i \in 1..Len(partition.comparison_df) :
            LET InputsDiffer ==
                    \/ OnOneSide(i)
                    \/ BatchIdsDiffer(i)
                    \/ ArraysDifferAsStr("descriptions_json", i)
                    \/ ArraysDifferAsStr("memos_json", i)
            IN /\ BatchOutcome(i) \in Statuses
               /\ InputsDiffer <=> BatchOutcome(i) = "DATA_MISMATCH"
               /\ BatchOutcome(i) = "MISMATCH" <=> (~InputsDiffer /\ ResponsesDiffer(i))
               /\ BatchOutcome(i) = "MATCH" <=> (~InputsDiffer /\ ~ResponsesDiffer(i))
               /\ (~OnOneSide(i) /\ ~BatchIdsDiffer(i)) => BatchOutcome(i) = OverallStatus(i)

(***************************************************************************)
(* Properties of the Structural Differ.                                    *)
(***************************************************************************)
Compared == pc = "compared"
Match == <<TRUE, "MATCH">>
Differences == find_diff(output1, output2, "root")
IsScalar(x) == x.k \in {"str", "int", "float", "bool"}

\* C1: comparing a value against itself returns (true, "MATCH") and find_diff
\* enumerates no Difference for it.
C1_Reflexive ==
    (Compared /\ output1 = output2) => (result = Match /\ Differences = <<>>)

\* A list of records that normalization reorders, compared against itself.
C1_Witness ==
    /\ Compared /\ output1 = output2
    /\ output1.k = "list" /\ Len(output1.v) >= 2
    /\ normalize_json(output1) # output1

Perms(n) == { f \in [1..n -> 1..n] : \A i, j \in 1..n : i # j => f[i] # f[j] }

\* y is x with the key insertion order of any dict permuted and the elements of
\* any list whose elements are all dicts permuted, at any depth.
RECURSIVE PermEquiv(_, _)
PermEquiv(x, y) ==
    IF x.k # y.k THEN FALSE
    ELSE IF x.k = "dict" THEN
        /\ DictKeys(x) = DictKeys(y)
        /\ \A key \in DictKeys(x) : PermEquiv(DictGet(x, key), DictGet(y, key))
    ELSE IF x.k = "list" THEN
        /\ Len(x.v) = Len(y.v)
        /\ IF \A i \in 1..Len(x.v) : x.v[i].k = "dict"
           THEN \E f \in Perms(Len(x.v)) :
                    \A i \in 1..Len(x.v) : PermEquiv(x.v[i], y.v[f[i]])
           ELSE \A i \in 1..Len(x.v) : PermEquiv(x.v[i], y.v[i])
    ELSE x = y

\* C2: permuting dict keys and lists of dicts, at any depth, keeps the outcome
\* MATCH.
C2_OrderIndependent ==
    (Compared /\ PermEquiv(output1, output2)) => result = Match

\* A list of records under a key, its elements in another order on the other side.
C2_Witness ==
    /\ Compared /\ PermEquiv(output1, output2)
    /\ output1.k = "dict" /\ HasKey(output1, "x")
    /\ DictGet(output1, "x").k = "list"
    /\ DictGet(output1, "x").v # DictGet(output2, "x").v

RECURSIVE Reached(_, _, _)
Reached(a, b, path) ==
    {<<a, b, path>>} \cup
    (IF a.k = "dict" /\ b.k = "dict" THEN
        UNION { Reached(DictGet(a, key), DictGet(b, key), path \o "." \o key) :
                    key \in DictKeys(a) \cap DictKeys(b) }
     ELSE IF a.k = "list" /\ b.k = "list" THEN
        UNION { Reached(a.v[i], b.v[i], path \o "[" \o ToString(i - 1) \o "]") :
                    i \in 1..Min(Len(a.v), Len(b.v)) }
     ELSE {})
\* The paths up to three steps below a path.
PathSteps == { "." \o key : key \in {"x", "y"} } \cup { "[" \o ToString(i) \o "]" : i \in 0..2 }
Below(path) ==
    LET one == { path \o st : st \in PathSteps }
        two == { q \o st : q \in one, st \in PathSteps }
    IN one \cup two \cup { q \o st : q \in two, st \in PathSteps }
TypesDiffer(t) == t[1].k # t[2].k
DifferencesAt(paths) == { i \in 1..Len(Differences) : Differences[i].path \in paths }

\* C22: at every path the walk comes to with values of different types, find_diff
\* emits the one Difference "<path>: type mismatch" and none for a path below.
C22_TypeMismatchStopsWalk ==
    Compared =>
        \A t \in Reached(output1, output2, "root") :
            TypesDiffer(t) =>
                /\ find_diff(t[1], t[2], t[3]) = <<Difference(t[3], "type", "", "")>>
                /\ Cardinality(DifferencesAt({t[3]})) = 1
                /\ \A i \in DifferencesAt({t[3]}) :
                        Text(Differences[i]) = t[3] \o ": type mismatch"
                /\ DifferencesAt(Below(t[3])) = {}

\* A record against a scalar under a key or an index, next to other Differences.
C22_Witness ==
    /\ Compared /\ Len(Differences) >= 2
    /\ \E t \in Reached(output1, output2, "root") :
        /\ TypesDiffer(t) /\ t[3] # "root"
        /\ t[1].k = "dict" /\ t[2].k \in {"str", "int", "bool"}

BothLists(t) == t[1].k = "list" /\ t[2].k = "list"
\* What C23 says find_diff emits for the lists a and b at a path.
LengthPart(a, b, path) ==
    IF Len(a.v) # Len(b.v)
    THEN << [path |-> path, what |-> "length",
             s1 |-> ToString(Len(a.v)), s2 |-> ToString(Len(b.v))] >>
    ELSE <<>>
IndexPart(a, b, path) ==
    Concat([ i \in 1..Min(Len(a.v), Len(b.v)) |->
                find_diff(a.v[i], b.v[i], path \o "[" \o ToString(i - 1) \o "]") ])
ExtraPart(a, b, path) ==
    LET short == Min(Len(a.v), Len(b.v))
        long == Max(Len(a.v), Len(b.v))
    IN [ j \in 1..(long - short) |->
            [path |-> path \o "[" \o ToString(short + j - 1) \o "]", what |-> "extra",
             s1 |-> IF Len(a.v) > Len(b.v) THEN "api_1" ELSE "api_2", s2 |-> ""] ]

\* C23: for two lists at a path find_diff emits the length mismatch iff the lengths
\* differ, then the Differences of the indexes both lists have, in ascending
\* order, then one "extra in" Difference per index past the shorter list, labelled
\* with the longer side.
C23_SequenceDiffing ==
    Compared =>
        \A t \in Reached(output1, output2, "root") :
            BothLists(t) =>
                /\ find_diff(t[1], t[2], t[3]) =
                        LengthPart(t[1], t[2], t[3]) \o IndexPart(t[1], t[2], t[3])
                        \o ExtraPart(t[1], t[2], t[3])
                /\ \A i \in 1..Len(ExtraPart(t[1], t[2], t[3])) :
                        Text(ExtraPart(t[1], t[2], t[3])[i]) =
                            ExtraPart(t[1], t[2], t[3])[i].path \o ": extra in "
                            \o (IF Len(t[1].v) > Len(t[2].v) THEN "api_1" ELSE "api_2")

\* The second list longer by two elements or more, a value differing before.
C23_Witness ==
    /\ Compared /\ BothLists(<<output1, output2>>)
    /\ Len(output1.v) >= 1 /\ Len(output2.v) >= Len(output1.v) + 2
    /\ \E i \in 1..Len(Differences) : Differences[i].what = "value"
    /\ Differences[1].what = "length"
    /\ Differences[Len(Differences)].what = "extra"

Unequal == ~PyEq(normalize_json(output1), normalize_json(output2))

\* C25: whenever the normalized forms are unequal find_diff enumerates at least
\* one Difference, so the comment is never "Structure mismatch".
C25_SentinelUnreachable ==
    (Compared /\ Unequal) =>
        /\ Len(Differences) >= 1
        /\ result[2] # "Structure mismatch"

ScalarList(x) == x.k = "list" /\ \A i \in 1..Len(x.v) : IsScalar(x.v[i])
Count(s, e) == Cardinality({ i \in 1..Len(s) : s[i] = e })
IsPermutation(s, t) ==
    /\ Len(s) = Len(t)
    /\ \A i \in 1..Len(s) : Count(s, s[i]) = Count(t, s[i])

RECURSIVE Paths(_)
Paths(ds) == IF ds = <<>> THEN <<>> ELSE <<Head(ds).path>> \o Paths(Tail(ds))

\* "root[i]" for the 0-based indexes from i on at which the two lists differ.
RECURSIVE DifferingIndexPaths(_, _, _)
DifferingIndexPaths(s, t, i) ==
    IF i >= Len(s) THEN <<>>
    ELSE (IF s[i + 1] # t[i + 1] THEN <<"root[" \o ToString(i) \o "]">> ELSE <<>>)
         \o DifferingIndexPaths(s, t, i + 1)

\* C3: a list of scalars against a reordering of it (one that is another list) is
\* a MISMATCH, the Differences being at the indexes whose elements differ.
C3_ScalarListOrderSensitive ==
    (/\ Compared /\ ScalarList(output1) /\ ScalarList(output2)
     /\ IsPermutation(output1.v, output2.v) /\ output1 # output2)
    => (/\ result[1] = FALSE
        /\ Paths(Differences) = DifferingIndexPaths(output1.v, output2.v, 0))

\* Swap the sides of one Difference: the side label, or the two printed values.
SwapSide(side) == IF side = "api_1" THEN "api_2" ELSE "api_1"
SwapSides(d) ==
    IF d.what \in {"only", "extra"} THEN [d EXCEPT !.s1 = SwapSide(d.s1)]
    ELSE [d EXCEPT !.s1 = d.s2, !.s2 = d.s1]
RECURSIVE SwapAll(_)
SwapAll(ds) == IF ds = <<>> THEN <<>> ELSE <<SwapSides(Head(ds))>> \o SwapAll(Tail(ds))

\* C4: compare_outputs(A, B) and compare_outputs(B, A) agree on match or mismatch,
\* and find_diff enumerates the same paths in the same order for both, with the
\* side labels and the two printed values swapped.
C4_Symmetric ==
    Compared =>
        /\ compare_outputs(output2, output1)[1] = result[1]
        /\ find_diff(output2, output1, "root") = SwapAll(Differences)

\* A mismatch with a key or an element present on one side only.
C4_Witness ==
    /\ Compared /\ result[1] = FALSE
    /\ \E i \in 1..Len(Differences) : Differences[i].what = "only"
    /\ \E i \in 1..Len(Differences) : Differences[i].what = "value"

\* The first n texts with " | " between them, built from the left.
RECURSIVE JoinedUpTo(_, _)
JoinedUpTo(texts, n) ==
    IF n = 1 THEN texts[1] ELSE JoinedUpTo(texts, n - 1) \o " | " \o texts[n]

\* C5: the comment of a mismatch with n Differences is the first min(n, 5) of them,
\* in enumeration order, joined by " | ".
C5_Truncation ==
    (Compared /\ result[1] = FALSE /\ Len(Differences) >= 1) =>
        result[2] = JoinedUpTo(Texts(Differences), Min(Len(Differences), 5))

\* More Differences than are shown.
C5_Witness == Compared /\ result[1] = FALSE /\ Len(Differences) > 5

RECURSIVE TotalLen(_, _)
TotalLen(texts, n) == IF n = 0 THEN 0 ELSE TotalLen(texts, n - 1) + Len(texts[n])

\* C6 as the specification states it: with more than 5 Differences the comment
\* carries, beyond the 5 shown, a note of how many more exist.
C6_NoteOfHowManyMore ==
    (Compared /\ Len(Differences) > 5) =>
        Len(result[2]) > TotalLen(Texts(Differences), 5) + 4 * Len(" | ")

\* C6 as the code has it: with more than 5 Differences the comment is as long as
\* the 5 shown and the 4 separators between them, and so holds nothing else.
C6_NoNote ==
    (Compared /\ Len(Differences) > 5) =>
        Len(result[2]) = TotalLen(Texts(Differences), 5) + 4 * Len(" | ")

\* Two Differences more than are shown.
C6_Witness == Compared /\ result[1] = FALSE /\ Len(Differences) >= 7

====
